---- MODULE Spec2Model ----
(***************************************************************************)
(* Model of qbist-javascript: the formula kernel of src/src/qbist.ts       *)
(* (createInfo, modifyInfo, optimize, qbist, the GIMP codec) and the       *)
(* application state that holds the main formula and its 8 variations.     *)
(*                                                                         *)
(* JavaScript arrays are functions over 0..length-1, so indices read as    *)
(* in the source.  Floating-point numbers are kept as terms: every         *)
(* arithmetic operation of the kernel builds the term of the operation     *)
(* from the terms of its operands and nothing is simplified.  IEEE         *)
(* operations are deterministic, so two computations that build the same   *)
(* term return the same number.                                            *)
(***************************************************************************)
EXTENDS Integers, Sequences, FiniteSets, TLC

VARIABLES
  \* --- kernel runs (optimize, qbist) ---
  kpc,            \* "idle", "created", "optimized", "rendered", "compared", "again"
  formula0,       \* the formula as it was handed to optimize
  formula,        \* the formula object (optimize normalizes it in place)
  liveness,       \* { usedTransFlag, usedRegFlag } returned by optimize
  pixel,          \* arguments of the last qbist calls
  color,          \* qbist with the flags optimize returned
  colorFull,      \* qbist with every step enabled and every register seeded
  other,          \* a second formula and the result of optimize on it
  \* --- GIMP codec runs (exportToGimpFormat, importFromGimpFormat) ---
  gpc,            \* "idle", "created", "exported", "received", "reimported",
                  \* "decoded"
  gformula,       \* the formula handed to exportToGimpFormat
  gbuffer,        \* the ArrayBuffer exported or read from a file
  gresult,        \* outcome of importFromGimpFormat: what it threw, or its info
  \* --- application state (QbistState and the UI handlers) ---
  mainFormula,    \* QbistState.mainFormula
  formulas,       \* QbistState.formulas, 9 entries
  origin,         \* where the main formula was last assigned from
  notice,         \* text of the alert() of the last handler, "" if none
  handled,        \* number of UI events handled so far
  clicked,        \* the index the last handler parsed from a canvas id, or Hole
  effects,        \* calls of generateFormulas and of onUpdate so far
  \* --- one call of qbist, statement by statement ---
  qpc,            \* "idle", "called", "seeded", "sampled", "returned"
  qcall,          \* the arguments of the call
  qxx,            \* loop variable xx
  qyy,            \* loop variable yy
  qi,             \* loop variable i of the loop over the steps
  qreg,           \* the array reg
  qaccum,         \* the array accum
  qlog,           \* the sub-samples added to accum so far: xx, yy, reg[0]
  qresult,        \* the array returned
  \* --- successive calls of qbist ---
  calls,          \* the calls made so far: arguments and result
  \* --- formulas as objects: arrays live on a heap ---
  hpc,            \* "idle", "created", "modified", "changed"
  heap,           \* the arrays allocated so far, by address
  hbase,          \* the formula handed to modifyInfo: address of each array
  hnew,           \* the formula modifyInfo returned
  hsaved,         \* the contents of both formulas when modifyInfo returned
  hchanged,       \* the formula changed after that: "base", "new" or ""
  \* --- the CPU worker ---
  wpc,            \* "idle", "received", "rendered"
  wcommand,       \* the render command
  wbuffer,        \* the Uint8ClampedArray posted back
  wwrites,        \* the assignments to elements of the buffer, in order
  wx,             \* the loop variable x
  wy,             \* the loop variable y
  wlog,           \* the calls of optimize and qbist of the command so far
  \* --- PreviewCpuRenderer and its worker ---
  pdisposed,      \* PreviewCpuRenderer.disposed
  pnextRequestId, \* PreviewCpuRenderer.nextRequestId
  ppendingJobs,   \* PreviewCpuRenderer.pendingJobs: request id and promise
  ppromises,      \* the promises render returned, in the order of the calls
  pinbox,         \* commands posted to the worker and not yet handled
  poutbox,        \* messages the worker posted, not yet dispatched
  pterminated,    \* worker.terminate() was called
  \* --- PreviewManager, one preview canvas ---
  vgeneration,    \* PreviewManager.previewWarmupGeneration
  vindex,         \* the index of the preview canvas
  vtasks,         \* what each call of updatePreviews has in flight
  vcpu,           \* the jobs in the CPU worker, oldest first
  vgl,            \* the renders in the WebGL worker, oldest first
  vcanvas,        \* the canvas: drawn image, background image, previewMode
  \* --- QbistRenderer and the shared WebGL worker ---
  srenderers,     \* the QbistRenderer objects created so far
  sregistry,      \* rendererRegistry: canvas id to renderer, 0 if none
  spromises,      \* the promises render returned, by request id
  sinbox,         \* messages posted to the worker and not yet handled
  soutbox,        \* messages the worker posted, not yet dispatched
  scontext,       \* singletonContext of the worker
  \* --- QbistExporter ---
  erenderer,      \* QbistExporter.renderer, 0 for null
  eexportCanvas,  \* QbistExporter.exportCanvas, 0 for null
  ebody,          \* the export canvases appended to document.body
  ecalls,         \* the calls of exportImage so far
  emicro,         \* the calls whose continuation is due, oldest first
  \* --- the CPU worker's messages ---
  lpc,            \* "idle", "rows"
  larrived,       \* the messages the worker received, in arrival order
  lcount,         \* how many of them the listener has taken
  ly,             \* the loop variable y
  lposted,        \* the messages posted so far, each with the command it answers
  \* --- the walk of optimize as a run ---
  tpc,            \* "idle", "created", "walked"
  tformula,       \* the formula optimize is called on
  twalk,          \* the calls the walk made and the depth its recursion reached
  \* --- modifyInfo as a run ---
  mpc,            \* "idle", "called", "loop", "returned"
  mstream,        \* the values Math.random() returns
  mbase,          \* oldInfo, as it was at the call
  mnew,           \* newInfo
  mlast,          \* newInfo before the last turn of the loop
  mn,             \* n
  mk,             \* the loop variable k
  \* --- the WebGL worker and its frame callbacks ---
  fcontext,       \* singletonContext, and the requestId the step closure holds
  fscheduled,     \* the frame callbacks requested and neither cancelled nor run
  fnextHandle,    \* the handle the next requestFrame returns
  fmessages,      \* the number of messages handled
  fcleaned,       \* cleanup was handled and no init, render or update since
  fafterCleanup,  \* the frames drawn since then
  fstale,         \* the callbacks scheduled when the last handler drew or requested a frame
  \* --- the responsiveness check of QbistRenderer ---
  workerResponsive,\* workerResponsive
  workerResponsivePromise,\* 0 for null, else the ping id of the promise
  pendingPings,   \* the keys of pendingPings
  nextPingId,     \* nextPingId
  npromises,      \* the promises created, by ping id
  ninbox,         \* the pings posted to the worker and not yet answered
  noutbox,        \* the pongs posted by the worker and not yet dispatched
  nlast           \* the last call of ensureWorkerResponsive

kvars == <<kpc, formula0, formula, liveness, pixel, color, colorFull, other>>
gvars == <<gpc, gformula, gbuffer, gresult>>
avars == <<mainFormula, formulas, origin, notice, handled, clicked, effects>>
qvars == <<qpc, qcall, qxx, qyy, qi, qreg, qaccum, qlog, qresult>>
cvars == <<calls>>
hvars == <<hpc, heap, hbase, hnew, hsaved, hchanged>>
wvars == <<wpc, wcommand, wbuffer, wwrites, wx, wy, wlog>>
pvars == <<pdisposed, pnextRequestId, ppendingJobs, ppromises, pinbox, poutbox, pterminated>>
vvars == <<vgeneration, vindex, vtasks, vcpu, vgl, vcanvas>>
svars == <<srenderers, sregistry, spromises, sinbox, soutbox, scontext>>
evars == <<erenderer, eexportCanvas, ebody, ecalls, emicro>>
lvars == <<lpc, larrived, lcount, ly, lposted>>
tvars == <<tpc, tformula, twalk>>
mvars == <<mpc, mstream, mbase, mnew, mlast, mn, mk>>
fvars == <<fcontext, fscheduled, fnextHandle, fmessages, fcleaned, fafterCleanup, fstale>>
nvars == <<workerResponsive, workerResponsivePromise, pendingPings, nextPingId, npromises, ninbox, noutbox, nlast>>
rvars == <<pvars, vvars, svars, evars, lvars, tvars, mvars, fvars, nvars>>
vars == <<kvars, gvars, avars, qvars, cvars, hvars, wvars, rvars>>
\* the variables the runs of one specification leave alone
notK == <<gvars, avars, qvars, hvars, wvars, rvars>>
notG == <<kvars, avars, qvars, cvars, hvars, wvars, rvars>>
notA == <<kvars, gvars, qvars, cvars, hvars, wvars, rvars>>
notQ == <<kvars, gvars, avars, cvars, hvars, wvars, rvars>>
notH == <<kvars, gvars, avars, qvars, cvars, wvars, rvars>>
notW == <<kvars, gvars, avars, qvars, cvars, hvars, rvars>>
notP == <<kvars, gvars, avars, qvars, cvars, hvars, wvars, vvars, svars, evars, lvars, tvars, mvars, fvars, nvars>>
notV == <<kvars, gvars, avars, qvars, cvars, hvars, wvars, pvars, svars, evars, lvars, tvars, mvars, fvars, nvars>>
notS == <<kvars, gvars, avars, qvars, cvars, hvars, wvars, pvars, vvars, evars, lvars, tvars, mvars, fvars, nvars>>
notE == <<kvars, gvars, avars, qvars, cvars, hvars, wvars, pvars, vvars, lvars, tvars, mvars, fvars, nvars>>
notL == <<kvars, gvars, avars, qvars, cvars, hvars, wvars, pvars, vvars, svars, evars, tvars, mvars, fvars, nvars>>
notT == <<kvars, gvars, avars, qvars, cvars, hvars, wvars, pvars, vvars, svars, evars, lvars, mvars, fvars, nvars>>
notM == <<kvars, gvars, avars, qvars, cvars, hvars, wvars, pvars, vvars, svars, evars, lvars, tvars, fvars, nvars>>
notF == <<kvars, gvars, avars, qvars, cvars, hvars, wvars, pvars, vvars, svars, evars, lvars, tvars, mvars, nvars>>
notN == <<kvars, gvars, avars, qvars, cvars, hvars, wvars, pvars, vvars, svars, evars, lvars, tvars, mvars, fvars>>

\* ------------------------------------------------------------------------
\* Core constants and transformation types (src/src/qbist.ts:1-15)
\* ------------------------------------------------------------------------
MAX_TRANSFORMS == 36
NUM_REGISTERS == 6
PROJECTION == 0
SHIFT == 1
SHIFTBACK == 2
ROTATE == 3
ROTATE2 == 4
MULTIPLY == 5
SINE == 6
CONDITIONAL == 7
COMPLEMENT == 8
NUM_TRANSFORM_TYPES == 9

\* ------------------------------------------------------------------------
\* Bounds of the model
\* ------------------------------------------------------------------------
\* number of trailing steps of a kernel test formula that are drawn freely
NumFree == 2
\* canvas of the kernel runs: x in 0..width-1, y in 0..height-1
Canvas == [width |-> 2, height |-> 1]
\* registers a freely drawn step takes as source, and as control and dest
SourceDraws == {1}
RegDraws == {0, 1}
\* oversampling factors 1..MaxOversampling
MaxOversampling == 2
\* Math.random() returns r / RandRes for an r in 0..RandRes-1
RandRes == 64
\* buffers read from a file have 0 or 288 - MaxLengthDelta .. 288 +
\* MaxLengthDelta bytes, byte j being (seed + j * stride) % 256 with
\* stride in 0..MaxByteStride
MaxLengthDelta == 2
MaxByteStride == 2
\* number of UI events handled after construction
MaxHandlers == 2
\* number of successive calls of qbist
MaxCalls == 3

Steps == 0..(MAX_TRANSFORMS - 1)
Registers == 0..(NUM_REGISTERS - 1)

\* ------------------------------------------------------------------------
\* Floating-point values as terms
\* ------------------------------------------------------------------------
Lit(n) == [op |-> "lit", v |-> n, args |-> <<>>]
Node(o, a) == [op |-> o, v |-> 0, args |-> a]
Add(a, b) == Node("add", <<a, b>>)
Sub(a, b) == Node("sub", <<a, b>>)
Mul(a, b) == Node("mul", <<a, b>>)
Div(a, b) == Node("div", <<a, b>>)
Sin(a) == Node("sin", <<a>>)
Cos(a) == Node("cos", <<a>>)
\* c ? a : b with c the comparison l >= r, l <= r, l > r
IfGe(l, r, a, b) == Node("ifge", <<l, r, a, b>>)
IfLe(l, r, a, b) == Node("ifle", <<l, r, a, b>>)
IfGt(l, r, a, b) == Node("ifgt", <<l, r, a, b>>)
\* the literal 0.5
Half == Div(Lit(1), Lit(2))
Vec(a, b, c) == (0 :> a) @@ (1 :> b) @@ (2 :> c)

\* ------------------------------------------------------------------------
\* The number a term stands for, as a fraction n / d in lowest terms with
\* d > 0.  The operations are those of the terms without their rounding:
\* the fraction is the number the program computes whenever the operands
\* and the result are representable (integers, halves, quarters, ...).
\* Terms with a sine have no value here.
\* ------------------------------------------------------------------------
Abs(n) == IF n < 0 THEN 0 - n ELSE n
RECURSIVE Gcd(_, _)
Gcd(a, b) == IF b = 0 THEN a ELSE Gcd(b, a % b)
Rat(n, d) ==
  LET g == Gcd(Abs(n), Abs(d))
      sign == IF d < 0 THEN 0 - 1 ELSE 1
  IN [n |-> (sign * n) \div g, d |-> (sign * d) \div g]
RatAdd(a, b) == Rat(a.n * b.d + b.n * a.d, a.d * b.d)
RatSub(a, b) == Rat(a.n * b.d - b.n * a.d, a.d * b.d)
RatMul(a, b) == Rat(a.n * b.n, a.d * b.d)
RatDiv(a, b) == Rat(a.n * b.d, a.d * b.n)
RatLess(a, b) == a.n * b.d < b.n * a.d
RatLeq(a, b) == a.n * b.d <= b.n * a.d
\* Math.floor
RatFloor(a) == a.n \div a.d

RECURSIVE Value(_)
Value(t) ==
  CASE t.op = "lit" -> Rat(t.v, 1)
    [] t.op = "add" -> RatAdd(Value(t.args[1]), Value(t.args[2]))
    [] t.op = "sub" -> RatSub(Value(t.args[1]), Value(t.args[2]))
    [] t.op = "mul" -> RatMul(Value(t.args[1]), Value(t.args[2]))
    [] t.op = "div" -> RatDiv(Value(t.args[1]), Value(t.args[2]))
    [] t.op = "ifge" ->
         IF RatLeq(Value(t.args[2]), Value(t.args[1]))
         THEN Value(t.args[3]) ELSE Value(t.args[4])
    [] t.op = "ifle" ->
         IF RatLeq(Value(t.args[1]), Value(t.args[2]))
         THEN Value(t.args[3]) ELSE Value(t.args[4])
    [] t.op = "ifgt" ->
         IF RatLess(Value(t.args[2]), Value(t.args[1]))
         THEN Value(t.args[3]) ELSE Value(t.args[4])
    [] t.op = "step" ->
         IF RatLess(Value(t.args[2]), Value(t.args[1]))
         THEN Rat(0, 1) ELSE Rat(1, 1)
    [] t.op = "sin" /\ Value(t.args[1]) = Rat(0, 1) -> Rat(0, 1)
    [] t.op = "cos" /\ Value(t.args[1]) = Rat(0, 1) -> Rat(1, 1)
\* the term has a value that is known exactly: sin and cos only at 0
RECURSIVE HasValue(_)
HasValue(t) ==
  /\ \A j \in DOMAIN t.args : HasValue(t.args[j])
  /\ t.op \in {"sin", "cos"} => Value(t.args[1]) = Rat(0, 1)
ValueOf(vec) == Vec(Value(vec[0]), Value(vec[1]), Value(vec[2]))

\* ------------------------------------------------------------------------
\* optimize (src/src/qbist.ts:87-114)
\* ------------------------------------------------------------------------
\* mutant: the normalization exchanges control and dest
NormalizeControlSwaps(info) ==
  LET aliased(i) == info.transformSequence[i] \in {ROTATE, ROTATE2, COMPLEMENT}
  IN [info EXCEPT
        !.control = [i \in Steps |->
                       IF aliased(i) THEN info.dest[i] ELSE info.control[i]],
        !.dest = [i \in Steps |->
                    IF aliased(i) THEN info.control[i] ELSE info.dest[i]]]

\* mutant: the normalization leaves COMPLEMENT steps out
NormalizeControlNoComplement(info) ==
  [info EXCEPT !.control =
     [i \in Steps |->
        IF info.transformSequence[i] = ROTATE
           \/ info.transformSequence[i] = ROTATE2
        THEN info.dest[i]
        ELSE info.control[i]]]

\* the normalization loop, lines 90-98
NormalizeControl(info) ==
  [info EXCEPT !.control =
     [i \in Steps |->
        IF info.transformSequence[i] = ROTATE
           \/ info.transformSequence[i] = ROTATE2
           \/ info.transformSequence[i] = COMPLEMENT
        THEN info.dest[i]
        ELSE info.control[i]]]

\* mutant: the backward scan never looks at the dest of step 0 and stops there
ScanBackStopsAtFirst(info, p, n) ==
  LET found == {q \in 1..p : info.dest[q] = n}
  IN IF found # {} THEN CHOOSE q \in found : \A w \in found : w <= q
     ELSE IF p >= 0 THEN 0 ELSE -1

\* lines 101-103, while (p >= 0 && info.dest[p] !== n) p--: the value of p
\* after the loop is the last step at or before p that writes n, or -1
ScanBack(info, p, n) ==
  LET found == {q \in 0..p : info.dest[q] = n}
  IN IF found # {} THEN CHOOSE q \in found : \A w \in found : w <= q
     ELSE -1

\* mutant: the walk follows the source of a live step only
RECURSIVE CheckLastModifiedSourceOnly(_, _, _)
CheckLastModifiedSourceOnly(info, p0, n) ==
  LET p == ScanBack(info, p0 - 1, n) IN
  IF p < 0
  THEN [steps |-> {}, regs |-> {n}]
  ELSE LET a == CheckLastModifiedSourceOnly(info, p, info.source[p])
       IN [steps |-> {p} \cup a.steps, regs |-> a.regs]

\* mutant: the walk follows the control of a live step only if its kind is
\* not ROTATE, ROTATE2 or COMPLEMENT
RECURSIVE CheckLastModifiedByKind(_, _, _)
CheckLastModifiedByKind(info, p0, n) ==
  LET p == ScanBack(info, p0 - 1, n) IN
  IF p < 0
  THEN [steps |-> {}, regs |-> {n}]
  ELSE LET a == CheckLastModifiedByKind(info, p, info.source[p])
           b == IF info.transformSequence[p] \in {ROTATE, ROTATE2, COMPLEMENT}
                THEN [steps |-> {}, regs |-> {}]
                ELSE CheckLastModifiedByKind(info, p, info.control[p])
       IN [steps |-> {p} \cup a.steps \cup b.steps,
           regs |-> a.regs \cup b.regs]

\* checkLastModified, lines 99-111.  The function only ever sets entries of
\* the two flag arrays to true, so a call is modelled by the set of entries
\* it and its recursive calls set: steps (usedTransFlag) and regs
\* (usedRegFlag).
RECURSIVE CheckLastModified(_, _, _)
CheckLastModified(info, p0, n) ==
  LET p == ScanBack(info, p0 - 1, n) IN
  IF p < 0
  THEN [steps |-> {}, regs |-> {n}]
  ELSE LET a == CheckLastModified(info, p, info.source[p])
           b == CheckLastModified(info, p, info.control[p])
       IN [steps |-> {p} \cup a.steps \cup b.steps,
           regs |-> a.regs \cup b.regs]

NoFlags ==
  [usedTransFlag |-> [i \in Steps |-> FALSE],
   usedRegFlag |-> [r \in Registers |-> FALSE]]

\* optimize: the formula after the call and the flags it returns
Optimize(info) ==
  LET norm == NormalizeControl(info)
      set == CheckLastModified(norm, MAX_TRANSFORMS, 0)
  IN [info |-> norm,
      flags |-> [usedTransFlag |-> [i \in Steps |-> i \in set.steps],
                 usedRegFlag |-> [r \in Registers |-> r \in set.regs]]]

\* ------------------------------------------------------------------------
\* qbist (src/src/qbist.ts:118-218)
\* ------------------------------------------------------------------------
\* lines 132-142: the registers of one sub-sample
\* mutant: a register that is not seeded keeps what the last sample left
InitRegistersKeepUnseeded(x, y, width, height, oversampling, xx, yy, usedRegFlag) ==
  [i \in Registers |->
     IF usedRegFlag[i]
     THEN Vec(Div(Lit(x * oversampling + xx), Lit(width * oversampling)),
              Div(Lit(y * oversampling + yy), Lit(height * oversampling)),
              Div(Lit(i), Lit(NUM_REGISTERS)))
     ELSE qreg[i]]

\* lines 131-142: new Array(NUM_REGISTERS) and the loop that fills it
InitRegisters(x, y, width, height, oversampling, xx, yy, usedRegFlag) ==
  [i \in Registers |->
     IF usedRegFlag[i]
     THEN Vec(Div(Lit(x * oversampling + xx), Lit(width * oversampling)),
              Div(Lit(y * oversampling + yy), Lit(height * oversampling)),
              Div(Lit(i), Lit(NUM_REGISTERS)))
     ELSE Vec(Lit(0), Lit(0), Lit(0))]

\* lines 148-209: the value one step writes to reg[dr]
\* mutant: a sum of exactly 1.0 is left alone
ShiftWrapStrict(v) == IfGt(v, Lit(1), Sub(v, Lit(1)), v)
ShiftWrap(v) == IfGe(v, Lit(1), Sub(v, Lit(1)), v)
ShiftBackWrap(v) == IfLe(v, Lit(0), Add(v, Lit(1)), v)
\* the fragment shader, src/src/workerWebGL.ts:525-531: step(edge, x) is 0.0
\* for x < edge and 1.0 otherwise
GlslStep(edge, x) == Node("step", <<edge, x>>)
ShaderShiftWrap(sum) == Sub(sum, GlslStep(Lit(1), sum))
ShaderShiftBackWrap(diff) == Add(diff, GlslStep(diff, Lit(0)))
\* renderFrame, src/src/workerWebGL.ts:345-348: the value of uTime, the
\* timestamp being in milliseconds
ShaderTime(renderMode, timestamp) ==
  IF renderMode = "animation" THEN Mul(Lit(timestamp), Div(Lit(1), Lit(1000)))
  ELSE Lit(0)
\* #define OVERSAMPLING 2, line 485
ShaderOversampling == 2
\* lines 495-512 of the fragment shader: the registers of sub-sample
\* (ox, oy) of the pixel at (x, y)
ShaderInitRegisters(x, y, width, height, ox, oy, usedRegFlag, uTime) ==
  [i \in Registers |->
     IF usedRegFlag[i]
     THEN LET phase == Mul(Lit(i), Lit(1))
              t == Mul(uTime, Div(Lit(2), Lit(10)))
              tenth == Div(Lit(1), Lit(10))
          IN Vec(Add(Div(Lit(x * ShaderOversampling + ox),
                         Lit(width * ShaderOversampling)),
                     Mul(tenth, Sin(Add(t, phase)))),
                 Add(Div(Lit(y * ShaderOversampling + oy),
                         Lit(height * ShaderOversampling)),
                     Mul(tenth, Cos(Add(t, Mul(phase, Half))))),
                 Add(Div(Lit(i), Lit(NUM_REGISTERS)), Mul(t, tenth)))
     ELSE Vec(Lit(0), Lit(0), Lit(0))]
\* mutant: the predicate sums the source register
ConditionalOnSource(s, c) ==
  LET sum == Add(Add(s[0], s[1]), s[2])
  IN Vec(IfGt(sum, Half, s[0], c[0]), IfGt(sum, Half, s[1], c[1]),
         IfGt(sum, Half, s[2], c[2]))
\* lines 201-205, the CONDITIONAL case
Conditional(s, c) ==
  LET sum == Add(Add(c[0], c[1]), c[2])
  IN Vec(IfGt(sum, Half, s[0], c[0]), IfGt(sum, Half, s[1], c[1]),
         IfGt(sum, Half, s[2], c[2]))
SineOf(a, b) == Add(Half, Mul(Half, Sin(Mul(Mul(Lit(20), a), b))))
\* mutant: ROTATE and ROTATE2 turn the other way
TransformRotatesBackward(kind, s, c) ==
  CASE kind = PROJECTION ->
         LET scalarProd == Add(Add(Mul(s[0], c[0]), Mul(s[1], c[1])),
                               Mul(s[2], c[2]))
         IN Vec(Mul(scalarProd, s[0]), Mul(scalarProd, s[1]),
                Mul(scalarProd, s[2]))
    [] kind = SHIFT ->
         Vec(ShiftWrap(Add(s[0], c[0])), ShiftWrap(Add(s[1], c[1])),
             ShiftWrap(Add(s[2], c[2])))
    [] kind = SHIFTBACK ->
         Vec(ShiftBackWrap(Sub(s[0], c[0])), ShiftBackWrap(Sub(s[1], c[1])),
             ShiftBackWrap(Sub(s[2], c[2])))
    [] kind = ROTATE -> Vec(s[2], s[0], s[1])
    [] kind = ROTATE2 -> Vec(s[1], s[2], s[0])
    [] kind = MULTIPLY ->
         Vec(Mul(s[0], c[0]), Mul(s[1], c[1]), Mul(s[2], c[2]))
    [] kind = SINE ->
         Vec(SineOf(s[0], c[0]), SineOf(s[1], c[1]), SineOf(s[2], c[2]))
    [] kind = CONDITIONAL -> Conditional(s, c)
    [] kind = COMPLEMENT ->
         Vec(Sub(Lit(1), s[0]), Sub(Lit(1), s[1]), Sub(Lit(1), s[2]))


Transform(kind, s, c) ==
  CASE kind = PROJECTION ->
         LET scalarProd == Add(Add(Mul(s[0], c[0]), Mul(s[1], c[1])),
                               Mul(s[2], c[2]))
         IN Vec(Mul(scalarProd, s[0]), Mul(scalarProd, s[1]),
                Mul(scalarProd, s[2]))
    [] kind = SHIFT ->
         Vec(ShiftWrap(Add(s[0], c[0])), ShiftWrap(Add(s[1], c[1])),
             ShiftWrap(Add(s[2], c[2])))
    [] kind = SHIFTBACK ->
         Vec(ShiftBackWrap(Sub(s[0], c[0])), ShiftBackWrap(Sub(s[1], c[1])),
             ShiftBackWrap(Sub(s[2], c[2])))
    [] kind = ROTATE -> Vec(s[1], s[2], s[0])
    [] kind = ROTATE2 -> Vec(s[2], s[0], s[1])
    [] kind = MULTIPLY ->
         Vec(Mul(s[0], c[0]), Mul(s[1], c[1]), Mul(s[2], c[2]))
    [] kind = SINE ->
         Vec(SineOf(s[0], c[0]), SineOf(s[1], c[1]), SineOf(s[2], c[2]))
    [] kind = CONDITIONAL -> Conditional(s, c)
    [] kind = COMPLEMENT ->
         Vec(Sub(Lit(1), s[0]), Sub(Lit(1), s[1]), Sub(Lit(1), s[2]))

\* mutant: the step is executed whatever its flag
ExecuteStepAlways(info, usedTransFlag, reg, i) ==
  LET sr == info.source[i]
      cr == info.control[i]
      dr == info.dest[i]
      kind == info.transformSequence[i]
  IN IF kind \in 0..(NUM_TRANSFORM_TYPES - 1)
     THEN [reg EXCEPT ![dr] = Transform(kind, reg[sr], reg[cr])]
     ELSE reg

\* lines 144-209: one iteration of the loop over the steps
ExecuteStep(info, usedTransFlag, reg, i) ==
  LET sr == info.source[i]
      cr == info.control[i]
      dr == info.dest[i]
      kind == info.transformSequence[i]
  IN IF ~usedTransFlag[i] THEN reg
     ELSE IF kind \in 0..(NUM_TRANSFORM_TYPES - 1)
          THEN [reg EXCEPT ![dr] = Transform(kind, reg[sr], reg[cr])]
          ELSE reg

\* lines 143-210: iterations lo..hi-1 of the loop over the steps, in order.
\* The range is split in halves and the first half is evaluated before the
\* second is entered, which keeps the evaluation shallow.
RECURSIVE RunSteps(_, _, _, _, _)
RunSteps(info, usedTransFlag, reg, lo, hi) ==
  IF hi <= lo THEN reg
  ELSE IF hi = lo + 1 THEN ExecuteStep(info, usedTransFlag, reg, lo)
  ELSE LET mid == (lo + hi) \div 2 IN
       CHOOSE out \in {RunSteps(info, usedTransFlag, r, mid, hi) :
                         r \in {RunSteps(info, usedTransFlag, reg, lo, mid)}} :
         TRUE

\* lines 131-213 for one sub-sample: register 0 after the 36 steps
Sample(info, x, y, width, height, oversampling, usedTransFlag, usedRegFlag, xx, yy) ==
  RunSteps(info, usedTransFlag,
           InitRegisters(x, y, width, height, oversampling, xx, yy,
                         usedRegFlag),
           0, MAX_TRANSFORMS)[0]

\* lines 211-213: accum[j] += reg[0][j]
AddSample(accum, r0) ==
  Vec(Add(accum[0], r0[0]), Add(accum[1], r0[1]), Add(accum[2], r0[2]))

\* mutant: accum starts from the colour the last call returned
NewAccumOfLastCall == color
\* line 128: const accum = [0, 0, 0]
NewAccum == Vec(Lit(0), Lit(0), Lit(0))

\* mutant: the sum is divided by the oversampling factor
AverageByFactor(accum, oversampling) ==
  Vec(Div(accum[0], Lit(oversampling)), Div(accum[1], Lit(oversampling)),
      Div(accum[2], Lit(oversampling)))
\* lines 216-217: samples and the returned array
Average(accum, oversampling) ==
  LET samples == oversampling * oversampling
  IN Vec(Div(accum[0], Lit(samples)), Div(accum[1], Lit(samples)),
         Div(accum[2], Lit(samples)))

\* lines 129-130, 211-213: accum after sub-samples lo..hi-1 are added to it,
\* row by row (sub-sample j has yy = j \div oversampling and
\* xx = j % oversampling); the range is split as in RunSteps
RECURSIVE Accumulate(_, _, _, _, _, _, _, _, _, _, _)
Accumulate(info, x, y, width, height, oversampling, usedTransFlag, usedRegFlag, accum, lo, hi) ==
  IF hi <= lo THEN accum
  ELSE IF hi = lo + 1
  THEN AddSample(accum, Sample(info, x, y, width, height, oversampling,
                                usedTransFlag, usedRegFlag,
                                lo % oversampling, lo \div oversampling))
  ELSE LET mid == (lo + hi) \div 2 IN
       CHOOSE out \in
         {Accumulate(info, x, y, width, height, oversampling, usedTransFlag,
                     usedRegFlag, a, mid, hi) :
            a \in {Accumulate(info, x, y, width, height, oversampling,
                              usedTransFlag, usedRegFlag, accum, lo, mid)}} :
         TRUE

Qbist(info, x, y, width, height, oversampling, usedTransFlag, usedRegFlag) ==
  Average(Accumulate(info, x, y, width, height, oversampling,
                     usedTransFlag, usedRegFlag, NewAccum, 0,
                     oversampling * oversampling),
          oversampling)

AllTrans == [i \in Steps |-> TRUE]
AllRegs == [r \in Registers |-> TRUE]

\* ------------------------------------------------------------------------
\* randomInt, createInfo, modifyInfo (src/src/qbist.ts:19-83)
\* ------------------------------------------------------------------------
\* The calls of Math.random() made by one handler return the numbers
\* Rand(rs, 0) / RandRes, Rand(rs, 1) / RandRes, ... of a stream rs.
Rand(rs, n) == (rs.seed + n * rs.stride) % RandRes

\* mutant: the upper end is included
RandomIntInclusive(r, min, max) == ((r * (max - min + 1)) \div RandRes) + min

\* Math.floor(Math.random() * (max - min)) + min, Math.random() = r / RandRes
RandomInt(r, min, max) == ((r * (max - min)) \div RandRes) + min

\* an element of an array that was never assigned
Hole == -1
Length(array) == Cardinality(DOMAIN array)

\* array[idx] = v: an index at or past the length grows the array
ArraySet(array, idx, v) ==
  IF idx \in DOMAIN array THEN [array EXCEPT ![idx] = v]
  ELSE [j \in 0..idx |->
          IF j = idx THEN v
          ELSE IF j \in DOMAIN array THEN array[j] ELSE Hole]

\* createInfo with the stream rs read from its call number pos on
CreateInfo(rs, pos) ==
  [info |->
     [transformSequence |->
        [k \in Steps |-> RandomInt(Rand(rs, pos + 4 * k), 0, NUM_TRANSFORM_TYPES)],
      source |->
        [k \in Steps |-> RandomInt(Rand(rs, pos + 4 * k + 1), 0, NUM_REGISTERS)],
      control |->
        [k \in Steps |-> RandomInt(Rand(rs, pos + 4 * k + 2), 0, NUM_REGISTERS)],
      dest |->
        [k \in Steps |-> RandomInt(Rand(rs, pos + 4 * k + 3), 0, NUM_REGISTERS)]],
   pos |-> pos + 4 * MAX_TRANSFORMS]

\* mutant: case 1 overwrites the control entry along with the source entry
ModifyOnceBothOperands(newInfo, rs, pos) ==
  LET which == RandomInt(Rand(rs, pos), 0, 4)
      idx == RandomInt(Rand(rs, pos + 1), 0, MAX_TRANSFORMS)
      kind == RandomInt(Rand(rs, pos + 2), 0, NUM_TRANSFORM_TYPES)
      register == RandomInt(Rand(rs, pos + 2), 0, NUM_REGISTERS)
  IN CASE which = 0 ->
            [newInfo EXCEPT !.transformSequence = ArraySet(@, idx, kind)]
       [] which = 1 -> [newInfo EXCEPT !.source = ArraySet(@, idx, register),
                                       !.control = ArraySet(@, idx, register)]
       [] which = 2 -> [newInfo EXCEPT !.control = ArraySet(@, idx, register)]
       [] which = 3 -> [newInfo EXCEPT !.dest = ArraySet(@, idx, register)]
       [] OTHER -> newInfo

\* one iteration of the loop of modifyInfo, lines 58-80; it makes three
\* calls of Math.random(), the first of them call number pos
ModifyOnce(newInfo, rs, pos) ==
  LET which == RandomInt(Rand(rs, pos), 0, 4)
      idx == RandomInt(Rand(rs, pos + 1), 0, MAX_TRANSFORMS)
      kind == RandomInt(Rand(rs, pos + 2), 0, NUM_TRANSFORM_TYPES)
      register == RandomInt(Rand(rs, pos + 2), 0, NUM_REGISTERS)
  IN CASE which = 0 ->
            [newInfo EXCEPT !.transformSequence = ArraySet(@, idx, kind)]
       [] which = 1 -> [newInfo EXCEPT !.source = ArraySet(@, idx, register)]
       [] which = 2 -> [newInfo EXCEPT !.control = ArraySet(@, idx, register)]
       [] which = 3 -> [newInfo EXCEPT !.dest = ArraySet(@, idx, register)]
       [] OTHER -> newInfo

\* iterations lo..hi-1 of the loop, iteration k reading the stream from
\* call number pos + 3k on
RECURSIVE ModifyLoop(_, _, _, _, _)
ModifyLoop(newInfo, rs, pos, lo, hi) ==
  IF hi <= lo THEN newInfo
  ELSE IF hi = lo + 1 THEN ModifyOnce(newInfo, rs, pos + 3 * lo)
  ELSE LET mid == (lo + hi) \div 2 IN
       CHOOSE out \in {ModifyLoop(f, rs, pos, mid, hi) :
                         f \in {ModifyLoop(newInfo, rs, pos, lo, mid)}} : TRUE

\* modifyInfo: the copy (slice) of the four arrays, n, then n changes
ModifyInfo(oldInfo, rs, pos) ==
  LET n == RandomInt(Rand(rs, pos), 0, MAX_TRANSFORMS)
  IN [info |-> ModifyLoop(oldInfo, rs, pos + 1, 0, n), pos |-> pos + 1 + 3 * n]

\* ------------------------------------------------------------------------
\* Arrays as objects: a heap maps an address to the array stored there and
\* a formula object holds the addresses of its four arrays
\* ------------------------------------------------------------------------
\* mutant: slice hands back the array it was called on
SliceShared(h, a) == [heap |-> h, address |-> a]
\* Array.prototype.slice(): a new array with the same elements
Slice(h, a) == [heap |-> Append(h, h[a]), address |-> Len(h) + 1]

\* the formula an object denotes
Deref(h, obj) ==
  [transformSequence |-> h[obj.transformSequence], source |-> h[obj.source],
   control |-> h[obj.control], dest |-> h[obj.dest]]

\* the assignments through an object that leave its arrays holding info
Store(h, obj, info) ==
  [a \in DOMAIN h |->
     IF a = obj.dest THEN info.dest
     ELSE IF a = obj.control THEN info.control
     ELSE IF a = obj.source THEN info.source
     ELSE IF a = obj.transformSequence THEN info.transformSequence
     ELSE h[a]]

\* a formula whose arrays are newly allocated
Allocate(info) ==
  [heap |-> <<info.transformSequence, info.source, info.control, info.dest>>,
   object |-> [transformSequence |-> 1, source |-> 2, control |-> 3,
               dest |-> 4]]

\* modifyInfo on objects: lines 50-55 copy the arrays, lines 56-81 assign
\* to elements of the copies, line 82 returns the new object
ModifyInfoObject(h, oldInfo, rs) ==
  LET t == Slice(h, oldInfo.transformSequence)
      s == Slice(t.heap, oldInfo.source)
      c == Slice(s.heap, oldInfo.control)
      d == Slice(c.heap, oldInfo.dest)
      newInfo == [transformSequence |-> t.address, source |-> s.address,
                  control |-> c.address, dest |-> d.address]
  IN [heap |-> Store(d.heap, newInfo,
                     ModifyInfo(Deref(d.heap, newInfo), rs, 0).info),
      object |-> newInfo]

\* optimize on an object: the assignments of line 96
OptimizeObject(h, obj) == Store(h, obj, NormalizeControl(Deref(h, obj)))

\* ------------------------------------------------------------------------
\* CPU worker (src/unnamed/part_008)
\* ------------------------------------------------------------------------
\* mutant: the conversion of a Uint8Array, which keeps the low eight bits
ToUint8Modulo(v) == v % 256
\* the conversion of an integer assigned to an element of a
\* Uint8ClampedArray
ToUint8Clamp(v) == IF v < 0 THEN 0 ELSE IF v > 255 THEN 255 ELSE v

\* new Uint8ClampedArray(length), line 39
Uint8ClampedArray(length) == [j \in 0..(length - 1) |-> 0]

\* Math.floor(color[j] * 255), lines 57-59
FloorOf255(c) == RatFloor(RatMul(Value(c), Rat(255, 1)))

\* lines 57-64: the assignments for one pixel, in order
PixelWrites(rgb, x, y, width) ==
  LET idx == (y * width + x) * 4
  IN <<[index |-> idx, value |-> ToUint8Clamp(FloorOf255(rgb[0]))],
       [index |-> idx + 1, value |-> ToUint8Clamp(FloorOf255(rgb[1]))],
       [index |-> idx + 2, value |-> ToUint8Clamp(FloorOf255(rgb[2]))],
       [index |-> idx + 3, value |-> ToUint8Clamp(255)]>>

\* an assignment to an element of a typed array; outside the array it has
\* no effect
TypedArraySet(buffer, w) ==
  IF w.index \in DOMAIN buffer THEN [buffer EXCEPT ![w.index] = w.value]
  ELSE buffer

RECURSIVE ApplyWrites(_, _, _)
ApplyWrites(buffer, writes, n) ==
  IF n = 0 THEN buffer
  ELSE TypedArraySet(ApplyWrites(buffer, writes, n - 1), writes[n])

\* ------------------------------------------------------------------------
\* GIMP file format (src/src/qbist.ts:221-277).  An ArrayBuffer is its
\* byteLength and its bytes, a function over 0..byteLength-1.
\* ------------------------------------------------------------------------
ArrayBuffer(length) ==
  [byteLength |-> length, bytes |-> [j \in 0..(length - 1) |-> 0]]

\* the conversion of DataView.setUint16 of its value argument
ToUint16(v) == v % (2 ^ 16)

\* view.setUint16(byteOffset, value, false)
SetUint16(buffer, byteOffset, value) ==
  [buffer EXCEPT !.bytes[byteOffset] = ToUint16(value) \div 256,
                 !.bytes[byteOffset + 1] = ToUint16(value) % 256]

\* mutant: the low byte is read first
GetUint16LittleEndian(buffer, byteOffset) ==
  buffer.bytes[byteOffset + 1] * 256 + buffer.bytes[byteOffset]

\* view.getUint16(byteOffset, false)
GetUint16(buffer, byteOffset) ==
  buffer.bytes[byteOffset] * 256 + buffer.bytes[byteOffset + 1]

\* mutant: the control block starts two bytes early
ExportWritesControlEarly(info) ==
  [n \in 0..(4 * MAX_TRANSFORMS - 1) |->
     LET i == n \div 4 IN
     CASE n % 4 = 0 -> [byteOffset |-> i * 2, value |-> info.transformSequence[i]]
       [] n % 4 = 1 -> [byteOffset |-> 72 + i * 2, value |-> info.source[i]]
       [] n % 4 = 2 -> [byteOffset |-> 142 + i * 2, value |-> info.control[i]]
       [] n % 4 = 3 -> [byteOffset |-> 216 + i * 2, value |-> info.dest[i]]]

\* the calls of setUint16 the loop of exportToGimpFormat makes, in order
ExportWrites(info) ==
  [n \in 0..(4 * MAX_TRANSFORMS - 1) |->
     LET i == n \div 4 IN
     CASE n % 4 = 0 -> [byteOffset |-> i * 2, value |-> info.transformSequence[i]]
       [] n % 4 = 1 -> [byteOffset |-> 72 + i * 2, value |-> info.source[i]]
       [] n % 4 = 2 -> [byteOffset |-> 144 + i * 2, value |-> info.control[i]]
       [] n % 4 = 3 -> [byteOffset |-> 216 + i * 2, value |-> info.dest[i]]]

\* the buffer after the calls lo..hi-1 of writes
RECURSIVE WriteAll(_, _, _, _)
WriteAll(buffer, writes, lo, hi) ==
  IF hi <= lo THEN buffer
  ELSE IF hi = lo + 1
       THEN SetUint16(buffer, writes[lo].byteOffset, writes[lo].value)
  ELSE LET mid == (lo + hi) \div 2 IN
       CHOOSE out \in {WriteAll(b, writes, mid, hi) :
                         b \in {WriteAll(buffer, writes, lo, mid)}} : TRUE

ExportToGimpFormat(info) ==
  WriteAll(ArrayBuffer(288), ExportWrites(info), 0, 4 * MAX_TRANSFORMS)

NoInfo ==
  [transformSequence |-> <<>>, source |-> <<>>, control |-> <<>>, dest |-> <<>>]

\* mutant: only buffers that are too short are refused
ImportFromGimpFormatMinLength(buffer) ==
  IF buffer.byteLength < MAX_TRANSFORMS * 2 * 4
  THEN [threw |-> "RangeError", info |-> NoInfo]
  ELSE [threw |-> "",
        info |->
          [transformSequence |->
             [i \in Steps |-> GetUint16(buffer, i * 2) % NUM_TRANSFORM_TYPES],
           source |->
             [i \in Steps |-> GetUint16(buffer, 72 + i * 2) % NUM_REGISTERS],
           control |->
             [i \in Steps |-> GetUint16(buffer, 144 + i * 2) % NUM_REGISTERS],
           dest |->
             [i \in Steps |-> GetUint16(buffer, 216 + i * 2) % NUM_REGISTERS]]]

\* importFromGimpFormat: what it threw ("" if nothing) and the info returned
ImportFromGimpFormat(buffer) ==
  IF buffer.byteLength # MAX_TRANSFORMS * 2 * 4
  THEN [threw |-> "RangeError", info |-> NoInfo]
  ELSE [threw |-> "",
        info |->
          [transformSequence |->
             [i \in Steps |-> GetUint16(buffer, i * 2) % NUM_TRANSFORM_TYPES],
           source |->
             [i \in Steps |-> GetUint16(buffer, 72 + i * 2) % NUM_REGISTERS],
           control |->
             [i \in Steps |-> GetUint16(buffer, 144 + i * 2) % NUM_REGISTERS],
           dest |->
             [i \in Steps |-> GetUint16(buffer, 216 + i * 2) % NUM_REGISTERS]]]

\* ------------------------------------------------------------------------
\* Application state (src/src/QbistState.ts) and the state code of a
\* shared URL (src/unnamed/part_006:17-79, src/src/UIController.ts:70-89)
\* ------------------------------------------------------------------------
\* the loop of generateFormulas from entry i on; the calls of modifyInfo
\* read the stream one after the other
RECURSIVE GenerateLoop(_, _, _, _, _)
GenerateLoop(fs, main, rs, pos, i) ==
  IF i >= 9 THEN fs
  ELSE LET m == ModifyInfo(main, rs, pos)
       IN GenerateLoop([fs EXCEPT ![i] = m.info], main, rs, m.pos, i + 1)

\* mutant: the loop starts at entry 0
GenerateFormulasFromZero(fs, main, rs, pos) ==
  GenerateLoop([fs EXCEPT ![0] = main], main, rs, pos, 0)
\* generateFormulas, lines 11-17
GenerateFormulas(fs, main, rs, pos) ==
  GenerateLoop([fs EXCEPT ![0] = main], main, rs, pos, 1)

\* new Array(9)
EmptyFormulas == [i \in 0..8 |-> NoInfo]

\* A value JSON.parse returns: its type and, for an object, the values of
\* the four keys; the value of a key is its type and, for an array, the
\* items, each a type and, for a number, the number.
Keys == {"transformSequence", "source", "control", "dest"}
JsonNumber(n) == [type |-> "number", v |-> n]
JsonString == [type |-> "string", v |-> 0]
JsonArray(items) == [type |-> "array", items |-> items]
JsonNumbers(array) == JsonArray([j \in DOMAIN array |-> JsonNumber(array[j])])
JsonAbsent == [type |-> "undefined", items |-> <<>>]
JsonObject(t, s, c, d) ==
  [type |-> "object", transformSequence |-> t, source |-> s, control |-> c,
   dest |-> d]
JsonNull ==
  [type |-> "null", transformSequence |-> JsonAbsent, source |-> JsonAbsent,
   control |-> JsonAbsent, dest |-> JsonAbsent]
\* JSON.stringify(info) parsed again
JsonOf(info) ==
  JsonObject(JsonNumbers(info.transformSequence), JsonNumbers(info.source),
             JsonNumbers(info.control), JsonNumbers(info.dest))

\* mutant: the guard also asks for 36 items in each array
IsFormulaInfoOfLength(value) ==
  /\ value.type = "object"
  /\ \A key \in Keys :
       /\ value[key].type = "array"
       /\ DOMAIN value[key].items = Steps
       /\ \A j \in DOMAIN value[key].items :
            value[key].items[j].type = "number"

\* isFormulaInfo, src/unnamed/part_006:17-32
IsFormulaInfo(value) ==
  /\ value.type = "object"
  /\ \A key \in Keys :
       /\ value[key].type = "array"
       /\ \A j \in DOMAIN value[key].items :
            value[key].items[j].type = "number"

\* Object.assign(mainFormula, stateObj) for a stateObj isFormulaInfo accepts
NumbersOf(array) == [j \in DOMAIN array.items |-> array.items[j].v]
AssignState(value) ==
  [transformSequence |-> NumbersOf(value.transformSequence),
   source |-> NumbersOf(value.source),
   control |-> NumbersOf(value.control),
   dest |-> NumbersOf(value.dest)]

\* ------------------------------------------------------------------------
\* Kernel test formulas: a fixed prefix that uses the kinds and registers
\* the free steps do not draw, followed by NumFree freely drawn steps.
\* Every one of them is a formula createInfo can return.
\* ------------------------------------------------------------------------
Step(k, s, c, d) == [kind |-> k, source |-> s, control |-> c, dest |-> d]

BaseStep(i) ==
  CASE i = 0 -> Step(SHIFTBACK, 2, 3, 2)
    [] i = 1 -> Step(SHIFT, 3, 2, 3)
    [] i = 2 -> Step(PROJECTION, 4, 5, 4)
    [] i = 3 -> Step(CONDITIONAL, 4, 5, 5)
    [] i = 4 -> Step(ROTATE2, 5, 0, 5)
    [] i = 5 -> Step(SINE, 5, 3, 1)
    [] i = 6 -> Step(COMPLEMENT, 1, 0, 1)
    [] i = 10 -> Step(MULTIPLY, 1, 4, 1)
    [] OTHER -> Step(ROTATE, 5, 3, 4)

KindDraws == {MULTIPLY, ROTATE}
FreeSteps ==
  [kind : KindDraws, source : SourceDraws, control : RegDraws, dest : RegDraws]
FirstFree == MAX_TRANSFORMS - NumFree

FormulaOf(free) ==
  LET step(i) == IF i >= FirstFree THEN free[i - FirstFree] ELSE BaseStep(i)
  IN [transformSequence |-> [i \in Steps |-> step(i).kind],
      source |-> [i \in Steps |-> step(i).source],
      control |-> [i \in Steps |-> step(i).control],
      dest |-> [i \in Steps |-> step(i).dest]]

KernelFormulas == {FormulaOf(free) : free \in [0..(NumFree - 1) -> FreeSteps]}

NoColor == Vec(Lit(0), Lit(0), Lit(0))
NoPixel == [x |-> 0, y |-> 0, oversampling |-> 0]
NoOther == [info0 |-> <<>>, info |-> <<>>, liveness |-> NoFlags]

\* ------------------------------------------------------------------------
\* Inputs of the codec runs and of the UI handlers
\* ------------------------------------------------------------------------
BaseFormula ==
  [transformSequence |-> [i \in Steps |-> BaseStep(i).kind],
   source |-> [i \in Steps |-> BaseStep(i).source],
   control |-> [i \in Steps |-> BaseStep(i).control],
   dest |-> [i \in Steps |-> BaseStep(i).dest]]

\* formulas handed to exportToGimpFormat: the kind and source of step 0 and
\* the control and dest of step 35 are drawn, also from beyond their ranges
KindWords == {0, 8, 258}
RegisterWords == {0, 5, 65541}
ExportedFormulaOf(k, s, c, d) ==
  [BaseFormula EXCEPT !.transformSequence[0] = k, !.source[0] = s,
                      !.control[MAX_TRANSFORMS - 1] = c,
                      !.dest[MAX_TRANSFORMS - 1] = d]
ExportedFormulas ==
  {ExportedFormulaOf(k, s, c, d) :
     k \in KindWords, s \in RegisterWords, c \in RegisterWords,
     d \in RegisterWords}

\* buffers read from a file
RawBuffer(length, seed, stride) ==
  [byteLength |-> length,
   bytes |-> [j \in 0..(length - 1) |-> (seed + j * stride) % 256]]
BufferLengths == {0} \cup ((288 - MaxLengthDelta)..(288 + MaxLengthDelta))
ByteSeeds == {0, 37, 255}
RawBuffers ==
  {RawBuffer(length, seed, stride) :
     length \in BufferLengths, seed \in ByteSeeds, stride \in 0..MaxByteStride}
\* files picked in the import dialog
FileBuffers == {RawBuffer(length, 37, 1) : length \in {287, 288}}

\* streams of Math.random(): all 0, all the largest value, mixed
RandomStreams ==
  {[seed |-> 0, stride |-> 0], [seed |-> RandRes - 1, stride |-> 0],
   [seed |-> 5, stride |-> 37]}

\* state codes: the value of the state parameter, whether atob and
\* JSON.parse accept it, and the value JSON.parse returns
StateParam(present, base64, json, value) ==
  [present |-> present, base64 |-> base64, json |-> json, value |-> value]
OutOfRangeState ==
  JsonOf([BaseFormula EXCEPT !.transformSequence[0] = 9,
                             !.source[MAX_TRANSFORMS - 1] = 6])
\* the JSON text {"transformSequence":[9],"source":[6],"control":[],"dest":[]}
ShortState ==
  JsonObject(JsonNumbers(0 :> 9), JsonNumbers(0 :> 6), JsonArray(<<>>),
             JsonArray(<<>>))
TextItemState ==
  JsonObject(JsonArray(0 :> JsonString), JsonArray(<<>>), JsonArray(<<>>),
             JsonArray(<<>>))
NoDestState ==
  JsonObject(JsonArray(<<>>), JsonArray(<<>>), JsonArray(<<>>), JsonAbsent)
StateParams ==
  {StateParam(FALSE, FALSE, FALSE, JsonNull),
   StateParam(TRUE, FALSE, FALSE, JsonNull),
   StateParam(TRUE, TRUE, FALSE, JsonNull),
   StateParam(TRUE, TRUE, TRUE, JsonNull),
   StateParam(TRUE, TRUE, TRUE, TextItemState),
   StateParam(TRUE, TRUE, TRUE, NoDestState),
   StateParam(TRUE, TRUE, TRUE, JsonOf(BaseFormula)),
   StateParam(TRUE, TRUE, TRUE, OutOfRangeState),
   StateParam(TRUE, TRUE, TRUE, ShortState)}

\* ------------------------------------------------------------------------
\* Formulas of the statement-by-statement runs of qbist: few live steps,
\* no SINE among them, so every register has a value
\* ------------------------------------------------------------------------
WithStep(f, i, st) ==
  [transformSequence |-> [f.transformSequence EXCEPT ![i] = st.kind],
   source |-> [f.source EXCEPT ![i] = st.source],
   control |-> [f.control EXCEPT ![i] = st.control],
   dest |-> [f.dest EXCEPT ![i] = st.dest]]
\* every step is ROTATE 5, 3, 4: no step writes register 0
Filler ==
  [transformSequence |-> [i \in Steps |-> ROTATE],
   source |-> [i \in Steps |-> 5],
   control |-> [i \in Steps |-> 3],
   dest |-> [i \in Steps |-> 4]]
\* the kernel test formula whose last steps multiply register 1, which
\* earlier steps of all kinds built, into register 0
Prefixed == FormulaOf([j \in 0..(NumFree - 1) |-> Step(MULTIPLY, 1, 0, 0)])
Last == MAX_TRANSFORMS - 1
\* step 0 is ROTATE 0, 0, 0 and no other step has dest 0
RotateFirst == WithStep(Filler, 0, Step(ROTATE, 0, 0, 0))
ShiftLast == WithStep(Filler, Last, Step(SHIFT, 1, 2, 0))
ShiftBackLast ==
  WithStep(WithStep(Filler, Last - 1, Step(COMPLEMENT, 1, 0, 1)),
           Last, Step(SHIFTBACK, 1, 2, 0))
ConditionalLast == WithStep(Filler, Last, Step(CONDITIONAL, 1, 0, 0))
\* a SHIFT whose result a SHIFTBACK subtracts from itself
ShiftBoth ==
  WithStep(WithStep(Filler, Last - 1, Step(SHIFT, 1, 2, 4)),
           Last, Step(SHIFTBACK, 4, 4, 0))
\* steps whose source or control is their dest, after a step whose dest no
\* later step reads
Aliased ==
  WithStep(WithStep(WithStep(WithStep(Filler, 20, Step(COMPLEMENT, 1, 0, 2)),
                             Last - 2, Step(COMPLEMENT, 0, 2, 0)),
                    Last - 1, Step(MULTIPLY, 0, 1, 0)),
           Last, Step(SHIFTBACK, 0, 0, 0))
\* register 0 is written before it is read
Unseeded ==
  WithStep(WithStep(Filler, 10, Step(ROTATE2, 1, 0, 0)),
           Last, Step(PROJECTION, 0, 2, 0))
SampleFormulas ==
  {Filler, RotateFirst, WithStep(RotateFirst, 10, Step(MULTIPLY, 1, 2, 3)),
   ShiftLast, ShiftBackLast, ShiftBoth, ConditionalLast, Aliased, Unseeded,
   Prefixed}

NoCall ==
  [info |-> NoInfo, x |-> 0, y |-> 0, width |-> 0, height |-> 0,
   oversampling |-> 0, usedTransFlag |-> NoFlags.usedTransFlag,
   usedRegFlag |-> NoFlags.usedRegFlag]
NoRegisters == [i \in Registers |-> NoColor]
NoObject == [transformSequence |-> 0, source |-> 0, control |-> 0, dest |-> 0]
NoCommand ==
  [info |-> NoInfo, width |-> 0, height |-> 0, oversampling |-> 0,
   usedTransFlag |-> <<>>, usedRegFlag |-> <<>>]

NoEffects == [generated |-> 0, updated |-> 0]

\* values of the variables of the runs a specification does not make
KIdle ==
  /\ kpc = "idle" /\ formula0 = NoInfo /\ formula = NoInfo
  /\ liveness = NoFlags /\ pixel = NoPixel /\ color = NoColor
  /\ colorFull = NoColor /\ other = NoOther
GIdle ==
  /\ gpc = "idle" /\ gformula = NoInfo /\ gbuffer = ArrayBuffer(0)
  /\ gresult = [threw |-> "", info |-> NoInfo]
AIdle ==
  /\ mainFormula = NoInfo /\ formulas = EmptyFormulas /\ origin = ""
  /\ notice = "" /\ handled = 0 /\ clicked = Hole /\ effects = NoEffects
QIdle ==
  /\ qpc = "idle" /\ qcall = NoCall /\ qxx = 0 /\ qyy = 0 /\ qi = 0
  /\ qreg = NoRegisters /\ qaccum = NoColor /\ qlog = <<>>
  /\ qresult = NoColor
CIdle == calls = <<>>
HIdle ==
  /\ hpc = "idle" /\ heap = <<>> /\ hbase = NoObject /\ hnew = NoObject
  /\ hsaved = [base |-> NoInfo, new |-> NoInfo] /\ hchanged = ""
WIdle ==
  /\ wpc = "idle" /\ wcommand = NoCommand /\ wbuffer = <<>>
  /\ wwrites = <<>> /\ wx = 0 /\ wy = 0 /\ wlog = <<>>
\* lines 33-41: the constructor
PIdle ==
  /\ pdisposed = FALSE /\ pnextRequestId = 1 /\ ppendingJobs = {}
  /\ ppromises = <<>> /\ pinbox = <<>> /\ poutbox = <<>>
  /\ pterminated = FALSE
VIdle ==
  /\ vgeneration = 0 /\ vindex = 0 /\ vtasks = <<>> /\ vcpu = <<>>
  /\ vgl = <<>>
  /\ vcanvas = [drawn |-> 0, backgroundImage |-> 0, previewMode |-> ""]
CanvasIds == {"mainCanvas", "preview0", "exportCanvas"}
NoContext ==
  [created |-> FALSE, canvasId |-> "", pendingFrame |-> 0,
   type |-> "interactive", keepAlive |-> FALSE]

SIdle ==
  /\ srenderers = <<>> /\ sregistry = [c \in CanvasIds |-> 0]
  /\ spromises = <<>> /\ sinbox = <<>> /\ soutbox = <<>>
  /\ scontext = NoContext
EIdle ==
  /\ erenderer = 0 /\ eexportCanvas = 0 /\ ebody = {} /\ ecalls = <<>>
  /\ emicro = <<>>
LIdle ==
  /\ lpc = "idle" /\ larrived = <<>> /\ lcount = 0 /\ ly = 0
  /\ lposted = <<>>
TIdle == tpc = "idle" /\ tformula = NoInfo /\ twalk = [calls |-> 0, depth |-> 0]
MIdle ==
  /\ mpc = "idle" /\ mstream = [seed |-> 0, stride |-> 0] /\ mbase = NoInfo
  /\ mnew = NoInfo /\ mlast = NoInfo /\ mn = 0 /\ mk = 0
FIdle ==
  /\ fcontext = [created |-> FALSE, pendingFrame |-> 0, type |-> "interactive",
                 keepAlive |-> FALSE, formula |-> FALSE, requestId |-> 0]
  /\ fscheduled = {} /\ fnextHandle = 0 /\ fmessages = 0 /\ fcleaned = FALSE
  /\ fafterCleanup = 0 /\ fstale = {}
NIdle ==
  /\ workerResponsive = FALSE /\ workerResponsivePromise = 0
  /\ pendingPings = {} /\ nextPingId = 0 /\ npromises = <<>>
  /\ ninbox = <<>> /\ noutbox = <<>>
  /\ nlast = [outstanding |-> {}, returned |-> 0, fresh |-> FALSE,
              outcome |-> ""]
RIdle == PIdle /\ VIdle /\ SIdle /\ EIdle /\ NIdle /\ FIdle /\ MIdle /\ TIdle /\ LIdle

\* ------------------------------------------------------------------------
\* Kernel specification: optimize once, then qbist (the order of the CPU
\* worker, src/unnamed/part_008:37-56), or optimize on a second formula
\* ------------------------------------------------------------------------
KInit ==
  /\ kpc = "created"
  /\ formula0 \in KernelFormulas
  /\ formula = formula0
  /\ liveness = NoFlags
  /\ pixel = NoPixel
  /\ color = NoColor
  /\ colorFull = NoColor
  /\ other = NoOther
  /\ GIdle /\ AIdle /\ QIdle /\ CIdle /\ HIdle /\ WIdle /\ RIdle

KOptimize ==
  /\ kpc = "created"
  /\ LET r == Optimize(formula) IN
       /\ formula' = r.info
       /\ liveness' = r.flags
  /\ kpc' = "optimized"
  /\ UNCHANGED <<formula0, pixel, color, colorFull, other, notK, calls>>

KRender ==
  /\ kpc = "optimized"
  /\ \E x \in 0..(Canvas.width - 1), y \in 0..(Canvas.height - 1),
        oversampling \in 1..MaxOversampling :
       /\ pixel' = [x |-> x, y |-> y, oversampling |-> oversampling]
       /\ color' = Qbist(formula, x, y, Canvas.width, Canvas.height, oversampling,
                         liveness.usedTransFlag, liveness.usedRegFlag)
       /\ colorFull' = Qbist(formula, x, y, Canvas.width, Canvas.height, oversampling,
                             AllTrans, AllRegs)
  /\ kpc' = "rendered"
  /\ UNCHANGED <<formula0, formula, liveness, other, notK, calls>>

\* optimize on a second formula: formula0 with another kind and/or another
\* control at one free step (source and dest arrays are those of formula0)
KOptimizeOther ==
  /\ kpc = "optimized"
  /\ \E i \in FirstFree..(MAX_TRANSFORMS - 1), kind \in KindDraws,
        c \in RegDraws :
       /\ <<kind, c>> # <<formula0.transformSequence[i], formula0.control[i]>>
       /\ LET b == [formula0 EXCEPT !.transformSequence[i] = kind,
                                    !.control[i] = c]
              r == Optimize(b)
          IN other' = [info0 |-> b, info |-> r.info, liveness |-> r.flags]
  /\ kpc' = "compared"
  /\ UNCHANGED <<formula0, formula, liveness, pixel, color, colorFull, notK, calls>>

\* optimize called again on the object the first call has normalized, as
\* 'init' makes uploadFormula do (src/src/workerWebGL.ts:236-237, 273-274)
KOptimizeAgain ==
  /\ kpc = "optimized"
  /\ LET r == Optimize(formula)
     IN other' = [info0 |-> formula, info |-> r.info, liveness |-> r.flags]
  /\ kpc' = "again"
  /\ UNCHANGED <<formula0, formula, liveness, pixel, color, colorFull, notK, calls>>

KNext == KOptimize \/ KRender \/ KOptimizeOther \/ KOptimizeAgain

SpecKernel == KInit /\ [][KNext]_vars

\* ------------------------------------------------------------------------
\* Codec specification: exportToGimpFormat on a formula and
\* importFromGimpFormat on its buffer, or importFromGimpFormat on a buffer
\* read from a file
\* ------------------------------------------------------------------------
GInit == KIdle /\ GIdle /\ AIdle /\ QIdle /\ CIdle /\ HIdle /\ WIdle /\ RIdle

GCreate ==
  /\ gpc = "idle"
  /\ gformula' \in ExportedFormulas
  /\ gpc' = "created"
  /\ UNCHANGED <<gbuffer, gresult, notG>>

GExport ==
  /\ gpc = "created"
  /\ gbuffer' = ExportToGimpFormat(gformula)
  /\ gpc' = "exported"
  /\ UNCHANGED <<gformula, gresult, notG>>

GReceive ==
  /\ gpc = "idle"
  /\ gbuffer' \in RawBuffers
  /\ gpc' = "received"
  /\ UNCHANGED <<gformula, gresult, notG>>

GImport ==
  /\ gpc \in {"exported", "received"}
  /\ gresult' = ImportFromGimpFormat(gbuffer)
  /\ gpc' = IF gpc = "exported" THEN "reimported" ELSE "decoded"
  /\ UNCHANGED <<gformula, gbuffer, notG>>

GNext == GCreate \/ GExport \/ GReceive \/ GImport

SpecGimp == GInit /\ [][GNext]_vars

\* ------------------------------------------------------------------------
\* Application specification: the constructor of QbistState, then the UI
\* handlers that assign the main formula; each ends with generateFormulas
\* ------------------------------------------------------------------------
Init ==
  /\ KIdle /\ GIdle /\ QIdle /\ CIdle /\ HIdle /\ WIdle /\ RIdle
  /\ \E rs \in RandomStreams :
       LET created == CreateInfo(rs, 0) IN
       /\ mainFormula = created.info
       /\ formulas = GenerateFormulas(EmptyFormulas, created.info, rs, created.pos)
  /\ origin = "createInfo"
  /\ notice = ""
  /\ handled = 0
  /\ clicked = Hole
  /\ effects = [generated |-> 1, updated |-> 0]

\* mutant: the handler leaves the variations as they are
AssignMainKeepsVariations(info, rs, pos) ==
  /\ mainFormula' = info
  /\ formulas' = [formulas EXCEPT ![0] = info]
  /\ effects' = [effects EXCEPT !.updated = @ + 1]

\* Object.assign(mainFormula, info); generateFormulas(); onUpdate()
AssignMain(info, rs, pos) ==
  /\ mainFormula' = info
  /\ formulas' = GenerateFormulas(formulas, info, rs, pos)
  /\ effects' = [generated |-> effects.generated + 1,
                 updated |-> effects.updated + 1]

\* click on the regenerate button
Regenerate ==
  /\ handled < MaxHandlers
  /\ \E rs \in RandomStreams :
       LET created == CreateInfo(rs, 0) IN AssignMain(created.info, rs, created.pos)
  /\ origin' = "createInfo"
  /\ notice' = ""
  /\ clicked' = Hole
  /\ handled' = handled + 1
  /\ UNCHANGED notA

\* the preview canvases clicked: the main formula's, the first and the last
\* variation's
ClickDraws == {0, 1, 8}

\* click on preview canvas number index
ClickPreview ==
  /\ handled < MaxHandlers
  /\ \E index \in ClickDraws, rs \in RandomStreams :
       /\ AssignMain(formulas[index], rs, 0)
       /\ clicked' = index
       /\ origin' = IF index = 0 \/ origin \in {"state", "gimp"}
                    THEN origin ELSE "modifyInfo"
  /\ notice' = ""
  /\ handled' = handled + 1
  /\ UNCHANGED notA

\* mutant: generateFormulas is called before the state code is looked at
LoadStateFromParamRegeneratesFirst ==
  /\ handled < MaxHandlers
  /\ \E param \in StateParams, rs \in RandomStreams :
       /\ notice' = IF param.present THEN "Error loading pattern state"
                    ELSE "Invalid pattern state"
       /\ formulas' = GenerateFormulas(formulas, mainFormula, rs, 0)
       /\ effects' = [effects EXCEPT !.generated = @ + 1]
       /\ UNCHANGED <<mainFormula, origin>>
  /\ handled' = handled + 1
  /\ clicked' = Hole
  /\ UNCHANGED notA

\* loadStateFromParam: the state parameter of the URL at start-up, of a
\* popstate event or of a pasted URL
LoadStateFromParam ==
  /\ handled < MaxHandlers
  /\ \E param \in StateParams :
       IF ~param.present
       THEN notice' = "Invalid pattern state"
            /\ UNCHANGED <<mainFormula, formulas, origin, effects>>
       ELSE IF ~param.base64 \/ ~param.json
       THEN notice' = "Error loading pattern state"
            /\ UNCHANGED <<mainFormula, formulas, origin, effects>>
       ELSE IF IsFormulaInfo(param.value)
       THEN /\ \E rs \in RandomStreams :
                 AssignMain(AssignState(param.value), rs, 0)
            /\ origin' = "state"
            /\ notice' = ""
       ELSE notice' = "Invalid pattern state"
            /\ UNCHANGED <<mainFormula, formulas, origin, effects>>
  /\ handled' = handled + 1
  /\ clicked' = Hole
  /\ UNCHANGED notA

\* the onchange handler of importFromGimp with the buffer of the file
ImportFromGimp ==
  /\ handled < MaxHandlers
  /\ \E buffer \in FileBuffers :
       IF buffer.byteLength # 288
       THEN notice' = "Invalid GIMP Qbist file format"
            /\ UNCHANGED <<mainFormula, formulas, origin, effects>>
       ELSE LET imported == ImportFromGimpFormat(buffer) IN
            IF imported.threw # ""
            THEN notice' = "Error importing file"
                 /\ UNCHANGED <<mainFormula, formulas, origin, effects>>
            ELSE /\ \E rs \in RandomStreams : AssignMain(imported.info, rs, 0)
                 /\ origin' = "gimp"
                 /\ notice' = ""
  /\ handled' = handled + 1
  /\ clicked' = Hole
  /\ UNCHANGED notA

Next == Regenerate \/ ClickPreview \/ LoadStateFromParam \/ ImportFromGimp

Spec == Init /\ [][Next]_vars

\* ------------------------------------------------------------------------
\* One call of qbist after the other, statement by statement
\* (src/src/qbist.ts:118-218), with the flags optimize returned
\* ------------------------------------------------------------------------
QInit ==
  /\ KIdle /\ GIdle /\ AIdle /\ CIdle /\ HIdle /\ WIdle /\ RIdle
  /\ qpc = "idle"
  /\ \E f \in SampleFormulas :
       LET r == Optimize(f) IN
       qcall = [NoCall EXCEPT !.info = r.info,
                              !.usedTransFlag = r.flags.usedTransFlag,
                              !.usedRegFlag = r.flags.usedRegFlag]
  /\ qxx = 0 /\ qyy = 0 /\ qi = 0
  /\ qreg = NoRegisters /\ qaccum = NoColor /\ qlog = <<>>
  /\ qresult = NoColor

\* the call, up to the first test of the loops: lines 128-130
QCall ==
  /\ qpc \in {"idle", "returned"}
  /\ \E x \in 0..(Canvas.width - 1), y \in 0..(Canvas.height - 1),
        oversampling \in 1..MaxOversampling :
       qcall' = [qcall EXCEPT !.x = x, !.y = y, !.width = Canvas.width,
                              !.height = Canvas.height,
                              !.oversampling = oversampling]
  /\ qaccum' = NewAccum
  /\ qxx' = 0 /\ qyy' = 0 /\ qi' = 0
  /\ qlog' = <<>>
  /\ qresult' = NoColor
  /\ qpc' = "called"
  /\ UNCHANGED <<qreg, notQ>>

\* the coordinates of the sub-sample being evaluated, lines 135-136
SampleU == Rat(qcall.x * qcall.oversampling + qxx, qcall.width * qcall.oversampling)
SampleV == Rat(qcall.y * qcall.oversampling + qyy, qcall.height * qcall.oversampling)
Zero == Rat(0, 1)
One == Rat(1, 1)

\* lines 131-142
QSeed ==
  /\ qpc = "called"
  /\ qreg' = InitRegisters(qcall.x, qcall.y, qcall.width, qcall.height,
                           qcall.oversampling, qxx, qyy, qcall.usedRegFlag)
  /\ qi' = 0
  /\ qpc' = "seeded"
  /\ UNCHANGED <<qcall, qxx, qyy, qaccum, qlog, qresult, notQ>>

\* one iteration of the loop over the steps, lines 143-210
QStep ==
  /\ qpc = "seeded"
  /\ qi < MAX_TRANSFORMS
  /\ qreg' = ExecuteStep(qcall.info, qcall.usedTransFlag, qreg, qi)
  /\ qi' = qi + 1
  /\ UNCHANGED <<qpc, qcall, qxx, qyy, qaccum, qlog, qresult, notQ>>

\* lines 211-213, then xx++ and yy++ with their tests
QAdd ==
  /\ qpc = "seeded"
  /\ qi = MAX_TRANSFORMS
  /\ qaccum' = AddSample(qaccum, qreg[0])
  /\ qlog' = Append(qlog, [xx |-> qxx, yy |-> qyy, u |-> SampleU,
                            v |-> SampleV, value |-> qreg[0]])
  /\ IF qxx + 1 < qcall.oversampling
     THEN qxx' = qxx + 1 /\ qyy' = qyy /\ qpc' = "called"
     ELSE IF qyy + 1 < qcall.oversampling
     THEN qxx' = 0 /\ qyy' = qyy + 1 /\ qpc' = "called"
     ELSE qxx' = qxx + 1 /\ qyy' = qyy + 1 /\ qpc' = "sampled"
  /\ UNCHANGED <<qcall, qi, qreg, qresult, notQ>>

\* lines 216-217
QReturn ==
  /\ qpc = "sampled"
  /\ qresult' = Average(qaccum, qcall.oversampling)
  /\ qpc' = "returned"
  /\ UNCHANGED <<qcall, qxx, qyy, qi, qreg, qaccum, qlog, notQ>>

QNext == QCall \/ QSeed \/ QStep \/ QAdd \/ QReturn

SpecSample == QInit /\ [][QNext]_vars

\* ------------------------------------------------------------------------
\* Successive calls of qbist on one formula with one pair of flag arrays
\* ------------------------------------------------------------------------
CallFormulas == {Filler, RotateFirst, Aliased}
CallOversamplings == {1, 4}

CInit ==
  /\ GIdle /\ AIdle /\ QIdle /\ HIdle /\ WIdle /\ RIdle
  /\ kpc = "calls"
  /\ formula0 \in CallFormulas
  /\ formula = Optimize(formula0).info
  /\ liveness \in {Optimize(formula0).flags, NoFlags}
  /\ pixel = NoPixel /\ color = NoColor /\ colorFull = NoColor
  /\ other = NoOther
  /\ calls = <<>>

CCall ==
  /\ kpc = "calls"
  /\ Len(calls) < MaxCalls
  /\ \E x \in 0..(Canvas.width - 1), y \in 0..(Canvas.height - 1),
        oversampling \in CallOversamplings :
       LET result == Qbist(formula, x, y, Canvas.width, Canvas.height,
                           oversampling, liveness.usedTransFlag,
                           liveness.usedRegFlag)
       IN /\ pixel' = [x |-> x, y |-> y, oversampling |-> oversampling]
          /\ color' = result
          /\ calls' = Append(calls, [pixel |-> pixel', result |-> result])
  /\ UNCHANGED <<kpc, formula0, formula, liveness, colorFull, other, notK>>

CNext == CCall

SpecCalls == CInit /\ [][CNext]_vars

\* ------------------------------------------------------------------------
\* Variation specification: modifyInfo on a base formula, then optimize on
\* the base and on the variation (what rendering either of them does)
\* ------------------------------------------------------------------------
HInit ==
  /\ KIdle /\ GIdle /\ AIdle /\ QIdle /\ CIdle /\ WIdle /\ RIdle
  /\ hpc = "base"
  /\ \E f \in KernelFormulas :
       /\ heap = Allocate(f).heap
       /\ hbase = Allocate(f).object
       /\ hsaved = [base |-> f, new |-> NoInfo]
  /\ hnew = NoObject
  /\ hchanged = ""

\* newInfo = modifyInfo(base)
HModify ==
  /\ hpc = "base"
  /\ \E rs \in RandomStreams :
       LET r == ModifyInfoObject(heap, hbase, rs)
       IN /\ heap' = r.heap
          /\ hnew' = r.object
          /\ hsaved' = [hsaved EXCEPT
                          !.new = ModifyInfo(hsaved.base, rs, 0).info]
  /\ hpc' = "modified"
  /\ UNCHANGED <<hbase, hchanged, notH>>

\* optimize(base)
HOptimizeBase ==
  /\ hpc = "modified"
  /\ hchanged \in {"", "new"}
  /\ heap' = OptimizeObject(heap, hbase)
  /\ hsaved' = [hsaved EXCEPT !.base = NormalizeControl(@)]
  /\ hchanged' = IF hchanged = "" THEN "base" ELSE "both"
  /\ UNCHANGED <<hpc, hbase, hnew, notH>>

\* optimize(newInfo)
HOptimizeNew ==
  /\ hpc = "modified"
  /\ hchanged \in {"", "base"}
  /\ heap' = OptimizeObject(heap, hnew)
  /\ hsaved' = [hsaved EXCEPT !.new = NormalizeControl(@)]
  /\ hchanged' = IF hchanged = "" THEN "new" ELSE "both"
  /\ UNCHANGED <<hpc, hbase, hnew, notH>>

HNext == HModify \/ HOptimizeBase \/ HOptimizeNew

SpecHeap == HInit /\ [][HNext]_vars

\* ------------------------------------------------------------------------
\* Worker specification: one render message, pixel by pixel
\* ------------------------------------------------------------------------
\* COMPLEMENT then PROJECTION of a register with itself: components above 1
Overflowing ==
  WithStep(WithStep(Filler, Last - 1, Step(COMPLEMENT, 1, 0, 1)),
           Last, Step(PROJECTION, 1, 1, 0))
\* and their COMPLEMENT: components below 0
Negative ==
  WithStep(WithStep(WithStep(Filler, Last - 2, Step(COMPLEMENT, 1, 0, 1)),
                    Last - 1, Step(PROJECTION, 1, 1, 0)),
           Last, Step(COMPLEMENT, 0, 0, 0))
WorkerFormulas ==
  {Filler, RotateFirst, ShiftBoth, ConditionalLast, Aliased, Overflowing,
   Negative}
WorkerCanvases ==
  {[width |-> 2, height |-> 1], [width |-> 1, height |-> 2],
   [width |-> 2, height |-> 2]}

WInit ==
  /\ KIdle /\ GIdle /\ AIdle /\ QIdle /\ CIdle /\ HIdle /\ WIdle /\ RIdle

\* lines 33-39: the message, optimize(info) and the new buffer
WReceive ==
  /\ wpc \in {"idle", "rendered"}
  /\ \E f \in WorkerFormulas, canvas \in WorkerCanvases,
        oversampling \in 1..MaxOversampling :
       LET r == Optimize(f)
       IN /\ wcommand' = [info |-> r.info, width |-> canvas.width,
                          height |-> canvas.height,
                          oversampling |-> oversampling,
                          usedTransFlag |-> r.flags.usedTransFlag,
                          usedRegFlag |-> r.flags.usedRegFlag]
          /\ wbuffer' = Uint8ClampedArray(canvas.width * canvas.height * 4)
          /\ wlog' = <<[call |-> "optimize", info |-> f,
                        usedTransFlag |-> <<>>, usedRegFlag |-> <<>>]>>
  /\ wx' = 0 /\ wy' = 0
  /\ wwrites' = <<>>
  /\ wpc' = "received"
  /\ UNCHANGED notW

\* mutant: optimize is called again for every pixel
WPixelOptimizesAgain ==
  /\ wpc = "received"
  /\ wy < wcommand.height
  /\ LET rgb == Qbist(wcommand.info, wx, wy, wcommand.width,
                      wcommand.height, wcommand.oversampling,
                      wcommand.usedTransFlag, wcommand.usedRegFlag)
         writes == PixelWrites(rgb, wx, wy, wcommand.width)
     IN /\ wbuffer' = ApplyWrites(wbuffer, writes, Len(writes))
        /\ wwrites' = wwrites \o writes
  /\ wlog' = wlog \o
       <<[call |-> "optimize", info |-> wcommand.info,
          usedTransFlag |-> <<>>, usedRegFlag |-> <<>>],
         [call |-> "qbist", info |-> wcommand.info,
          usedTransFlag |-> wcommand.usedTransFlag,
          usedRegFlag |-> wcommand.usedRegFlag]>>
  /\ IF wx + 1 < wcommand.width
     THEN wx' = wx + 1 /\ wy' = wy
     ELSE wx' = 0 /\ wy' = wy + 1
  /\ UNCHANGED <<wpc, wcommand, notW>>

\* lines 46-65: one iteration of the loop over x, and the tests that follow
WPixel ==
  /\ wpc = "received"
  /\ wy < wcommand.height
  /\ LET rgb == Qbist(wcommand.info, wx, wy, wcommand.width,
                      wcommand.height, wcommand.oversampling,
                      wcommand.usedTransFlag, wcommand.usedRegFlag)
         writes == PixelWrites(rgb, wx, wy, wcommand.width)
     IN /\ wbuffer' = ApplyWrites(wbuffer, writes, Len(writes))
        /\ wwrites' = wwrites \o writes
  /\ wlog' = Append(wlog, [call |-> "qbist", info |-> wcommand.info,
                           usedTransFlag |-> wcommand.usedTransFlag,
                           usedRegFlag |-> wcommand.usedRegFlag])
  /\ IF wx + 1 < wcommand.width
     THEN wx' = wx + 1 /\ wy' = wy
     ELSE wx' = 0 /\ wy' = wy + 1
  /\ UNCHANGED <<wpc, wcommand, notW>>

\* lines 68-77: the rendered message
WPost ==
  /\ wpc = "received"
  /\ wy = wcommand.height
  /\ wpc' = "rendered"
  /\ UNCHANGED <<wcommand, wbuffer, wwrites, wx, wy, wlog, notW>>

WNext == WReceive \/ WPixel \/ WPost

SpecWorker == WInit /\ [][WNext]_vars

\* ------------------------------------------------------------------------
\* Properties of optimize and qbist
\* ------------------------------------------------------------------------
usedTransFlag == liveness.usedTransFlag
usedRegFlag == liveness.usedRegFlag
Optimized == kpc \in {"optimized", "rendered", "compared"}
IgnoresControl(kind) == kind \in {ROTATE, ROTATE2, COMPLEMENT}

\* C1: qbist with the flags optimize returned gives the same colour as qbist
\* with all 36 steps enabled and all 6 registers seeded, for every formula,
\* pixel and oversampling.
C1_LivenessSound == kpc = "rendered" => color = colorFull

C1_Witness ==
  /\ kpc = "rendered"
  /\ pixel.oversampling >= 2
  /\ \E i \in FirstFree..(MAX_TRANSFORMS - 1) : ~usedTransFlag[i]
  /\ \E i \in FirstFree..(MAX_TRANSFORMS - 1) : usedTransFlag[i]
  /\ \E i \in 0..(FirstFree - 1) : usedTransFlag[i]
  /\ \E r \in Registers : ~usedRegFlag[r]
  /\ \E r \in Registers : usedRegFlag[r]

\* The registers a step reads: its source, and its control if its kind uses
\* the control operand.
ReadsOf(f, i) ==
  {f.source[i]} \cup
    (IF IgnoresControl(f.transformSequence[i]) THEN {} ELSE {f.control[i]})

\* Backward dataflow from the final read of register 0: need is the set of
\* registers whose value after step i is read before being overwritten; step
\* i contributes iff it writes such a register.
RECURSIVE Contributing(_, _, _)
Contributing(f, i, need) ==
  IF i < 0 THEN {}
  ELSE IF f.dest[i] \in need
       THEN {i} \cup Contributing(f, i - 1,
                                  (need \ {f.dest[i]}) \cup ReadsOf(f, i))
       ELSE Contributing(f, i - 1, need)

\* C2: usedTransFlag[i] is true iff step i contributes to the final value of
\* register 0 (its output is read, as source or as a used control, by the
\* final read or by a contributing step before being overwritten).
C2_LiveIffContributes ==
  Optimized =>
    \A i \in Steps :
      usedTransFlag[i] <=> i \in Contributing(formula, MAX_TRANSFORMS - 1, {0})

\* C3: usedRegFlag[r] is true iff some step flagged live reads r as its
\* source or control operand before any step has written r.
SeedReadByLiveStep(r) ==
  \E p \in Steps :
    /\ usedTransFlag[p]
    /\ formula.source[p] = r \/ formula.control[p] = r
    /\ \A q \in 0..(p - 1) : formula.dest[q] # r

C3_SeededIffReadByLiveStep ==
  Optimized => \A r \in Registers : usedRegFlag[r] <=> SeedReadByLiveStep(r)

\* C3 (amended): usedRegFlag[r] is true iff r is register 0 and no step
\* writes register 0 (the final read sees the seed), or some step flagged
\* live has r as its source or normalized control and no earlier step
\* writes r.
C3_SeededIffSeedObserved ==
  Optimized =>
    \A r \in Registers :
      usedRegFlag[r] <=>
        \/ r = 0 /\ \A q \in Steps : formula.dest[q] # 0
        \/ SeedReadByLiveStep(r)

C3_Witness ==
  /\ Optimized
  /\ usedRegFlag[0]
  /\ \A q \in Steps : formula.dest[q] # 0
  /\ \A i \in Steps : ~usedTransFlag[i]

\* C9: optimize changes the formula only by its normalization: control[i]
\* becomes dest[i] for ROTATE, ROTATE2 and COMPLEMENT steps; every other
\* control and every transformSequence, source and dest entry are unchanged.
C9_NormalizationOnly ==
  Optimized =>
    /\ formula.transformSequence = formula0.transformSequence
    /\ formula.source = formula0.source
    /\ formula.dest = formula0.dest
    /\ \A i \in Steps :
         formula.control[i] =
           IF IgnoresControl(formula0.transformSequence[i])
           THEN formula0.dest[i]
           ELSE formula0.control[i]

C9_Witness ==
  /\ kpc = "optimized"
  /\ \E i \in Steps :
       /\ i >= FirstFree
       /\ formula0.transformSequence[i] = ROTATE
       /\ formula0.control[i] # formula0.dest[i]
       /\ formula.control[i] = formula0.dest[i]
  /\ \E i \in Steps :
       /\ i >= FirstFree
       /\ formula0.transformSequence[i] = MULTIPLY
       /\ formula0.control[i] # formula0.dest[i]
       /\ formula.control[i] = formula0.control[i]

\* C10: two formulas whose source, control and dest arrays are equal get
\* the same flags from optimize, whatever their kinds.
C10_FlagsIgnoreKinds ==
  (/\ kpc = "compared"
   /\ other.info0.source = formula0.source
   /\ other.info0.control = formula0.control
   /\ other.info0.dest = formula0.dest)
  => other.liveness = liveness

\* C10 (amended): two formulas whose source and dest arrays are equal and
\* whose control arrays are equal after optimize's normalization get the
\* same flags.
C10_FlagsFromNormalizedGraph ==
  (/\ kpc = "compared"
   /\ other.info.source = formula.source
   /\ other.info.control = formula.control
   /\ other.info.dest = formula.dest)
  => other.liveness = liveness

C10_Witness ==
  /\ kpc = "compared"
  /\ other.info.control = formula.control
  /\ other.info0.control # formula0.control
  /\ \E i \in FirstFree..(MAX_TRANSFORMS - 1) :
       /\ other.info0.transformSequence[i] # formula0.transformSequence[i]
       /\ usedTransFlag[i]

\* ------------------------------------------------------------------------
\* Properties of the formulas the application holds and of the codec
\* ------------------------------------------------------------------------
\* four arrays of exactly 36 entries, kinds in [0, 9), registers in [0, 6)
Canonical(f) ==
  /\ DOMAIN f.transformSequence = Steps
  /\ DOMAIN f.source = Steps
  /\ DOMAIN f.control = Steps
  /\ DOMAIN f.dest = Steps
  /\ \A i \in Steps :
       /\ f.transformSequence[i] \in 0..8
       /\ f.source[i] \in 0..5
       /\ f.control[i] \in 0..5
       /\ f.dest[i] \in 0..5

\* C4: every formula that is the main formula or one of the 9 formulas
\* handed to the renderers has 36 entries in each array, every kind in
\* [0, 9) and every source, control and dest in [0, 6), whatever it was
\* loaded from.
C4_FormulasAlwaysCanonical ==
  /\ Canonical(mainFormula)
  /\ \A i \in 0..8 : Canonical(formulas[i])

\* C5: createInfo returns a formula within the bounds, and modifyInfo of a
\* formula within the bounds returns one within the bounds: the main formula
\* and the 9 formulas are within the bounds as long as the main formula
\* comes from createInfo and modifyInfo only, and the 9 formulas are
\* whenever the main formula is.
C5_GeneratedWithinBounds ==
  /\ origin \in {"createInfo", "modifyInfo"} => Canonical(mainFormula)
  /\ Canonical(mainFormula) => \A i \in 0..8 : Canonical(formulas[i])

C5_Witness ==
  /\ origin = "modifyInfo"
  /\ handled = MaxHandlers
  /\ \E i \in 1..8 :
       /\ formulas[i] # mainFormula
       /\ \E k \in Steps : formulas[i].transformSequence[k] = 8
       /\ \E k \in Steps : formulas[i].dest[k] = 5
       /\ \E k \in Steps : formulas[i].source[k] = 0

\* the 16-bit word number k of a buffer, high byte first
RawWord(buffer, k) == buffer.bytes[2 * k] * 256 + buffer.bytes[2 * k + 1]

\* C6: importFromGimpFormat throws a RangeError and returns nothing for a
\* buffer of a byteLength other than 288; for a buffer of 288 bytes it does
\* not throw and returns four arrays of 36 entries, each kind the raw word
\* modulo 9 and each source, control and dest the raw word modulo 6.
C6_ImportGuardsAndSanitizes ==
  gpc \in {"decoded", "reimported"} =>
    IF gbuffer.byteLength # 288
    THEN gresult.threw = "RangeError" /\ gresult.info = NoInfo
    ELSE /\ gresult.threw = ""
         /\ Canonical(gresult.info)
         /\ \A i \in Steps :
              /\ gresult.info.transformSequence[i] = RawWord(gbuffer, i) % 9
              /\ gresult.info.source[i] = RawWord(gbuffer, 36 + i) % 6
              /\ gresult.info.control[i] = RawWord(gbuffer, 72 + i) % 6
              /\ gresult.info.dest[i] = RawWord(gbuffer, 108 + i) % 6

C6_Witness ==
  /\ gpc = "decoded"
  /\ gbuffer.byteLength = 288
  /\ gresult.threw = ""
  /\ \E i \in Steps : RawWord(gbuffer, i) > 65000
  /\ \E i \in Steps : RawWord(gbuffer, 108 + i) % 6 # RawWord(gbuffer, 108 + i)

\* C7: importFromGimpFormat(exportToGimpFormat(f)) returns f, array by
\* array and entry by entry, for every formula f within the bounds.
C7_RoundTrip ==
  (gpc = "reimported" /\ Canonical(gformula)) =>
    /\ gresult.threw = ""
    /\ gresult.info = gformula

C7_Witness ==
  /\ gpc = "reimported"
  /\ Canonical(gformula)
  /\ gformula.transformSequence[0] = 8
  /\ gformula.dest[35] = 5
  /\ gresult.info = gformula

\* C8: exportToGimpFormat returns 288 bytes; entry i of transformSequence,
\* source, control and dest is at bytes 2i, 72+2i, 144+2i and 216+2i as an
\* unsigned 16-bit integer, high byte first; every byte is written by
\* exactly one of the entries.
StoredAt(buffer, offset, value) ==
  /\ buffer.bytes[offset] = (value % 65536) \div 256
  /\ buffer.bytes[offset + 1] = value % 256

C8_ExportLayout ==
  gpc \in {"exported", "reimported"} =>
    /\ gbuffer.byteLength = 288
    /\ DOMAIN gbuffer.bytes = 0..287
    /\ \A i \in Steps :
         /\ StoredAt(gbuffer, 2 * i, gformula.transformSequence[i])
         /\ StoredAt(gbuffer, 72 + 2 * i, gformula.source[i])
         /\ StoredAt(gbuffer, 144 + 2 * i, gformula.control[i])
         /\ StoredAt(gbuffer, 216 + 2 * i, gformula.dest[i])
    /\ LET writes == ExportWrites(gformula) IN
       \A j \in 0..287 :
         Cardinality({n \in DOMAIN writes :
                        j \in {writes[n].byteOffset,
                               writes[n].byteOffset + 1}}) = 1

C8_Witness ==
  /\ gpc = "exported"
  /\ gformula.transformSequence[0] = 258
  /\ gbuffer.bytes[0] = 1
  /\ gbuffer.bytes[1] = 2
  /\ gformula.dest[35] = 5
  /\ gbuffer.bytes[287] = 5

\* ------------------------------------------------------------------------
\* Properties of the nine formulas and of the handlers that replace them
\* ------------------------------------------------------------------------
\* the number of Math.random() calls made before the call of modifyInfo
\* that returns variation i, the first of them starting at call number pos
RECURSIVE CallsBefore(_, _, _, _)
CallsBefore(main, rs, pos, i) ==
  IF i = 1 THEN pos
  ELSE ModifyInfo(main, rs, CallsBefore(main, rs, pos, i - 1)).pos
\* fs[1] to fs[8] are what eight successive calls modifyInfo(main) return
VariationsOf(fs, main) ==
  \E rs \in RandomStreams, pos \in {0, 4 * MAX_TRANSFORMS} :
    \A i \in 1..8 :
      fs[i] = ModifyInfo(main, rs, CallsBefore(main, rs, pos, i)).info

\* C23: formulas always holds 9 formulas; formulas[0] is the main formula
\* and formulas[1] to formulas[8] are the results of calls of modifyInfo on
\* the main formula.
C23_MainAndEightVariations ==
  /\ DOMAIN formulas = 0..8
  /\ \A i \in 0..8 : formulas[i] # NoInfo
  /\ formulas[0] = mainFormula
  /\ VariationsOf(formulas, mainFormula)

\* generateFormulas has run again after a click on a variation, and the
\* first and the last variation differ from the main formula and from each
\* other
C23_Witness ==
  /\ effects.generated >= 2
  /\ origin = "modifyInfo"
  /\ formulas[0] = mainFormula
  /\ formulas[1] # mainFormula /\ formulas[8] # mainFormula
  /\ formulas[1] # formulas[8]

\* C24: a click on preview i makes formulas[i], as it was before the click,
\* the main formula, and replaces the 8 variations by variations of it.
C24_ClickedBecomesMain ==
  [][(handled' = handled + 1 /\ clicked' # Hole) =>
       /\ mainFormula' = formulas[clicked']
       /\ formulas'[0] = formulas[clicked']
       /\ VariationsOf(formulas', formulas[clicked'])
       /\ effects'.generated = effects.generated + 1]_vars

\* the last variation was clicked: it is the main formula now and has
\* variations that differ from it
C24_Witness ==
  /\ clicked = 8
  /\ origin = "modifyInfo"
  /\ effects.generated >= 2
  /\ formulas[0] = mainFormula
  /\ \E i \in 1..8 : formulas[i] # mainFormula

\* C29: a handler that ends with an alert has changed neither the main
\* formula nor the 9 formulas and has called neither generateFormulas nor
\* onUpdate.
C29_FailedLoadChangesNothing ==
  [][(handled' = handled + 1 /\ notice' # "") =>
       UNCHANGED <<mainFormula, formulas, effects>>]_vars

\* a load has failed after a handler that had changed the formulas
C29_Witness ==
  /\ handled >= 2
  /\ notice \in {"Invalid pattern state", "Error loading pattern state",
                 "Invalid GIMP Qbist file format"}
  /\ effects.generated = handled
  /\ effects.updated = handled - 1
  /\ formulas[8] # mainFormula

\* ------------------------------------------------------------------------
\* Properties of one call of qbist
\* ------------------------------------------------------------------------
\* the loop over the steps of the current sub-sample is over
StepsDone == qpc = "seeded" /\ qi = MAX_TRANSFORMS

IsRotateFirst(f) ==
  /\ f.transformSequence[0] = ROTATE
  /\ f.source[0] = 0 /\ f.control[0] = 0 /\ f.dest[0] = 0
  /\ \A i \in 1..(MAX_TRANSFORMS - 1) : f.dest[i] # 0

\* C13: for a formula whose step 0 is ROTATE 0, 0, 0 and that has no other
\* step with dest 0, optimize flags step 0 only and register 0 only, and the
\* value of a sample at (u, v) is (v, 0, u).
C13_RotateFirst ==
  IsRotateFirst(qcall.info) =>
    /\ \A i \in Steps : qcall.usedTransFlag[i] <=> i = 0
    /\ \A r \in Registers : qcall.usedRegFlag[r] <=> r = 0
    /\ StepsDone => ValueOf(qreg[0]) = Vec(SampleV, Zero, SampleU)

C13_Witness ==
  /\ IsRotateFirst(qcall.info)
  /\ StepsDone
  /\ SampleU \notin {Zero, SampleV}
  /\ SampleV # Zero
  /\ ValueOf(qreg[0]) = Vec(SampleV, Zero, SampleU)

\* the operands of step qi, the one QStep is about to apply
StepKind == qcall.info.transformSequence[qi]
StepSource == qreg[qcall.info.source[qi]]
StepControl == qreg[qcall.info.control[qi]]
\* QStep applies a step flagged live of the given kind
Applies(kind) == QStep /\ qcall.usedTransFlag[qi] /\ StepKind = kind

\* a sum wrapped at >= 1.0, a difference wrapped at <= 0.0
WrappedSum(s, c) ==
  LET sum == RatAdd(s, c)
  IN IF RatLeq(One, sum) THEN RatSub(sum, One) ELSE sum
WrappedDifference(s, c) ==
  LET diff == RatSub(s, c)
  IN IF RatLeq(diff, Zero) THEN RatAdd(diff, One) ELSE diff

\* C15: a SHIFT step writes source + control, less 1 when the sum is >= 1
\* (a sum of exactly 1 becomes 0); a SHIFTBACK step writes source - control,
\* plus 1 when the difference is <= 0 (a difference of exactly 0 becomes 1);
\* the fragment shader's step() expressions give the same values.
C15_ShiftBoundaries ==
  [][/\ Applies(SHIFT) =>
          \A k \in 0..2 :
            LET written == Value(qreg'[qcall.info.dest[qi]][k])
            IN /\ written = WrappedSum(Value(StepSource[k]),
                                       Value(StepControl[k]))
               /\ written = Value(ShaderShiftWrap(Add(StepSource[k],
                                                      StepControl[k])))
     /\ Applies(SHIFTBACK) =>
          \A k \in 0..2 :
            LET written == Value(qreg'[qcall.info.dest[qi]][k])
            IN /\ written = WrappedDifference(Value(StepSource[k]),
                                              Value(StepControl[k]))
               /\ written = Value(ShaderShiftBackWrap(Sub(StepSource[k],
                                                          StepControl[k])))
    ]_vars

\* steps 34 and 35 of ShiftBoth have run: a sum of exactly 1 was written as
\* 0 to register 4, a difference of exactly 0 as 1 to register 0
C15_Witness ==
  /\ StepsDone
  /\ qcall.info.transformSequence[Last - 1] = SHIFT
  /\ qcall.info.transformSequence[Last] = SHIFTBACK
  /\ qcall.usedTransFlag[Last - 1] /\ qcall.usedTransFlag[Last]
  /\ RatAdd(Value(qreg[1][0]), Value(qreg[2][0])) = One
  /\ Value(qreg[4][0]) = Zero
  /\ RatSub(Value(qreg[4][0]), Value(qreg[4][0])) = Zero
  /\ Value(qreg[0][0]) = One

\* the sum of a register's components
ComponentSum(r) == RatAdd(RatAdd(Value(r[0]), Value(r[1])), Value(r[2]))

\* C16: a CONDITIONAL step writes a copy of the source register when the
\* control register's components sum to more than 0.5 and a copy of the
\* control register otherwise, a sum of exactly 0.5 included; the source
\* register plays no part in the choice.
C16_ConditionalOnControl ==
  [][Applies(CONDITIONAL) =>
       ValueOf(qreg'[qcall.info.dest[qi]]) =
         IF RatLess(Rat(1, 2), ComponentSum(StepControl))
         THEN ValueOf(StepSource) ELSE ValueOf(StepControl)]_vars

\* the last step of ConditionalLast has run on a control register (register
\* 0, also the dest) summing to exactly 0.5 and a source register summing
\* to more
C16_Witness ==
  /\ StepsDone
  /\ qcall.info.transformSequence[Last] = CONDITIONAL
  /\ qcall.usedTransFlag[Last]
  /\ qcall.info.source[Last] = 1 /\ qcall.info.control[Last] = 0
  /\ ComponentSum(qreg[0]) = Rat(1, 2)
  /\ RatLess(Rat(1, 2), ComponentSum(qreg[1]))
  /\ ValueOf(qreg[0]) # ValueOf(qreg[1])
  /\ ValueOf(qreg[0]) = Vec(SampleU, SampleV, Zero)

\* the loop over the steps of the current sub-sample is about to start
SampleStart == qpc = "seeded" /\ qi = 0
ZeroRegister == Vec(Lit(0), Lit(0), Lit(0))

\* C17: when the steps of a sub-sample start, register r holds
\* (u, v, r / 6) if usedRegFlag[r] is true and (0, 0, 0) otherwise, u and v
\* being the coordinates of that sub-sample, whatever earlier sub-samples
\* and calls left in the registers.
C17_RegistersReinitialized ==
  SampleStart =>
    \A r \in Registers :
      IF qcall.usedRegFlag[r]
      THEN ValueOf(qreg[r]) = Vec(SampleU, SampleV, Rat(r, NUM_REGISTERS))
      ELSE qreg[r] = ZeroRegister

\* a second or later sub-sample starts; the one before left a value other
\* than (0, 0, 0) in register 0, which is not seeded
C17_Witness ==
  /\ SampleStart
  /\ Len(qlog) >= 1
  /\ ~qcall.usedRegFlag[0]
  /\ qlog[Len(qlog)].value # ZeroRegister
  /\ qreg[0] = ZeroRegister
  /\ qcall.usedRegFlag[2]
  /\ SampleU # Zero /\ SampleV # Zero
  /\ ValueOf(qreg[2]) = Vec(SampleU, SampleV, Rat(2, NUM_REGISTERS))

\* C18: the steps are applied in increasing index order; a step that is not
\* flagged live changes no register; an executed step changes its dest
\* register only, to the value computed from the source and control
\* registers as they were before the step, and later steps read what it
\* wrote.
C18_StepsInOrder ==
  [][/\ QSeed => qi' = 0
     /\ QAdd => qi = MAX_TRANSFORMS
     /\ QStep =>
          /\ qi' = qi + 1
          /\ ~qcall.usedTransFlag[qi] => qreg' = qreg
          /\ qcall.usedTransFlag[qi] =>
               /\ \A r \in Registers \ {qcall.info.dest[qi]} :
                    qreg'[r] = qreg[r]
               /\ qreg'[qcall.info.dest[qi]] =
                    Transform(StepKind, StepSource, StepControl)
    ]_vars

\* the steps of Aliased have run: step 20, not flagged, would have changed
\* register 2 and did not; step 35, SHIFTBACK 0, 0, 0, subtracted register 0
\* as it was before the step from itself and wrote (1, 1, 1)
C18_Witness ==
  /\ StepsDone
  /\ ~qcall.usedTransFlag[20]
  /\ qcall.info.dest[20] = 2
  /\ qreg[2] = ZeroRegister
  /\ Transform(qcall.info.transformSequence[20],
               qreg[qcall.info.source[20]],
               qreg[qcall.info.control[20]]) # ZeroRegister
  /\ qcall.usedTransFlag[Last]
  /\ qcall.info.transformSequence[Last] = SHIFTBACK
  /\ qcall.info.source[Last] = qcall.info.dest[Last]
  /\ ValueOf(qreg[0]) = Vec(One, One, One)
  /\ SampleU # Zero

\* the coordinates of sub-sample (dx, dy) of the pixel of the current call
SubSampleU(dx) ==
  Rat(qcall.x * qcall.oversampling + dx, qcall.width * qcall.oversampling)
SubSampleV(dy) ==
  Rat(qcall.y * qcall.oversampling + dy, qcall.height * qcall.oversampling)
\* component c of the sum of the first n logged sub-samples, added in order
RECURSIVE SumOfLog(_, _)
SumOfLog(n, c) ==
  IF n = 0 THEN Lit(0) ELSE Add(SumOfLog(n - 1, c), qlog[n].value[c])

\* C19: with oversampling factor k a call evaluates exactly k * k
\* sub-samples, one for each (dx, dy) in (0..k-1) x (0..k-1), at
\* u = (x k + dx) / (width k) and v = (y k + dy) / (height k), both in
\* [0, 1), and returns the component-wise sum of their register 0 divided
\* by k * k.
C19_SubSamplesAveraged ==
  LET k == qcall.oversampling IN
  /\ qpc \in {"called", "seeded"} =>
       /\ Len(qlog) = qyy * k + qxx
       /\ qxx \in 0..(k - 1) /\ qyy \in 0..(k - 1)
       /\ RatLeq(Zero, SampleU) /\ RatLess(SampleU, One)
       /\ RatLeq(Zero, SampleV) /\ RatLess(SampleV, One)
  /\ qpc \in {"called", "seeded", "sampled", "returned"} =>
       \A j \in 1..Len(qlog) :
         /\ qlog[j].xx = (j - 1) % k /\ qlog[j].yy = (j - 1) \div k
         /\ qlog[j].u = SubSampleU(qlog[j].xx)
         /\ qlog[j].v = SubSampleV(qlog[j].yy)
         /\ qlog[j].value =
              Sample(qcall.info, qcall.x, qcall.y, qcall.width, qcall.height,
                     k, qcall.usedTransFlag, qcall.usedRegFlag,
                     qlog[j].xx, qlog[j].yy)
  /\ qpc \in {"sampled", "returned"} =>
       /\ Len(qlog) = k * k
       /\ {<<qlog[j].xx, qlog[j].yy>> : j \in 1..Len(qlog)} =
            (0..(k - 1)) \X (0..(k - 1))
  /\ qpc = "returned" =>
       /\ \A c \in 0..2 : qresult[c] = Div(SumOfLog(k * k, c), Lit(k * k))
       /\ qresult = Qbist(qcall.info, qcall.x, qcall.y, qcall.width,
                          qcall.height, k, qcall.usedTransFlag,
                          qcall.usedRegFlag)

\* a call with oversampling 2 has returned the average of four sub-samples
\* that are not all the same
C19_Witness ==
  /\ qpc = "returned"
  /\ qcall.oversampling = 2
  /\ qcall.x > 0
  /\ Len(qlog) = 4
  /\ qlog[1].value # qlog[2].value
  /\ qlog[4].u = SubSampleU(1) /\ qlog[4].v = SubSampleV(1)
  /\ \A c \in 0..2 : qresult[c] = Div(SumOfLog(4, c), Lit(4))

\* C21: in a render that is not an animation the fragment shader starts a
\* sub-sample with the registers qbist starts it with: (u, v, r / 6) in a
\* seeded register r and (0, 0, 0) in the others.  (Compared where the
\* shader's expression has an exact value: sin and cos at 0.)
C21_ShaderSeedsAsKernel ==
  (SampleStart /\ qcall.oversampling = ShaderOversampling) =>
    \A mode \in {"interactive", "export"} :
      LET seeds == ShaderInitRegisters(qcall.x, qcall.y, qcall.width,
                                       qcall.height, qxx, qyy,
                                       qcall.usedRegFlag,
                                       ShaderTime(mode, 0))
      IN \A r \in Registers :
           IF qcall.usedRegFlag[r]
           THEN \A k \in 0..2 :
                  HasValue(seeds[r][k]) =>
                    Value(seeds[r][k]) = Value(qreg[r][k])
           ELSE seeds[r] = qreg[r]

NoStepLive == \A i \in Steps : ~liveness.usedTransFlag[i]
\* two calls for the same pixel, at oversampling 1 and at oversampling 4
SamePixelAt1And4(i, j) ==
  /\ calls[i].pixel.x = calls[j].pixel.x
  /\ calls[i].pixel.y = calls[j].pixel.y
  /\ calls[i].pixel.oversampling = 1
  /\ calls[j].pixel.oversampling = 4

\* C14: for a formula with no step flagged live, qbist at oversampling 1 and
\* at oversampling 4 return the same colour for the same pixel.
C14_SkippedSameAt1And4 ==
  NoStepLive =>
    \A i, j \in DOMAIN calls :
      SamePixelAt1And4(i, j) =>
        ValueOf(calls[i].result) = ValueOf(calls[j].result)

\* C14 (amended): with no step flagged live the two colours are the same
\* when register 0 is not seeded; when it is seeded the colour at
\* oversampling 4 is that at oversampling 1 plus 3 / (8 width) in the first
\* component and 3 / (8 height) in the second, the third being the same.
C14_SkippedSameUnlessSeeded ==
  NoStepLive =>
    \A i, j \in DOMAIN calls :
      SamePixelAt1And4(i, j) =>
        LET a == ValueOf(calls[i].result)
            b == ValueOf(calls[j].result)
        IN IF liveness.usedRegFlag[0]
           THEN /\ b[0] = RatAdd(a[0], Rat(3, 8 * Canvas.width))
                /\ b[1] = RatAdd(a[1], Rat(3, 8 * Canvas.height))
                /\ b[2] = a[2]
           ELSE a = b /\ a = Vec(Zero, Zero, Zero)

C14_Witness ==
  /\ NoStepLive
  /\ ~liveness.usedRegFlag[0]
  /\ Len(calls) >= 2
  /\ SamePixelAt1And4(1, 2)
  /\ calls[1].pixel.x > 0
  /\ ValueOf(calls[1].result) = ValueOf(calls[2].result)

\* ------------------------------------------------------------------------
\* Properties of modifyInfo's copies
\* ------------------------------------------------------------------------
AddressesOf(obj) == {obj.transformSequence, obj.source, obj.control, obj.dest}

\* C11: modifyInfo leaves its argument as it was and returns a formula that
\* has no array in common with it: after the call, and after optimize has
\* changed either formula in place, each of the two formulas holds what it
\* would hold if the other did not exist.
C11_NoSharedArrays ==
  hpc = "modified" =>
    /\ AddressesOf(hbase) \cap AddressesOf(hnew) = {}
    /\ Deref(heap, hbase) = hsaved.base
    /\ Deref(heap, hnew) = hsaved.new

\* modifyInfo has changed a dest in the copy and optimize has then changed
\* a control of the base that the copy still holds as it was
C11_Witness ==
  /\ hpc = "modified"
  /\ hchanged = "base"
  /\ Deref(heap, hnew).dest # Deref(heap, hbase).dest
  /\ \E i \in Steps :
       /\ Deref(heap, hbase).transformSequence[i] = ROTATE
       /\ Deref(heap, hnew).transformSequence[i] = ROTATE
       /\ Deref(heap, hbase).control[i] = Deref(heap, hbase).dest[i]
       /\ Deref(heap, hnew).dest[i] = Deref(heap, hbase).dest[i]
       /\ Deref(heap, hnew).control[i] # Deref(heap, hbase).control[i]

\* ------------------------------------------------------------------------
\* Properties of the CPU worker's buffer
\* ------------------------------------------------------------------------
\* the colour qbist returns for pixel p of the current command, pixels
\* counted row by row
ColorOfPixel(p) ==
  ValueOf(Qbist(wcommand.info, p % wcommand.width, p \div wcommand.width,
                wcommand.width, wcommand.height, wcommand.oversampling,
                wcommand.usedTransFlag, wcommand.usedRegFlag))
ByteOf(c) == RatFloor(RatMul(c, Rat(255, 1)))
Clamped(v) == IF v < 0 THEN 0 ELSE IF v > 255 THEN 255 ELSE v
\* assignment number j goes to byte j - 1: component (j - 1) % 4 of pixel
\* (j - 1) \div 4, which is byte (y * width + x) * 4 + component
InPixelOrder ==
  /\ Len(wwrites) = 4 * (wy * wcommand.width + wx)
  /\ \A j \in 1..Len(wwrites) : wwrites[j].index = j - 1
  /\ \A j \in 1..Len(wwrites) : wwrites[j].index \in DOMAIN wbuffer
  /\ DOMAIN wbuffer = 0..(wcommand.width * wcommand.height * 4 - 1)
  /\ \A i \in DOMAIN wbuffer :
       wbuffer[i] = IF i < Len(wwrites) THEN wwrites[i + 1].value ELSE 0
  /\ wpc = "rendered" =>
       \A i \in DOMAIN wbuffer :
         Cardinality({j \in 1..Len(wwrites) : wwrites[j].index = i}) = 1

\* C20: the worker assigns to every byte of the buffer exactly once and to
\* nothing else; the bytes of pixel (x, y) are at (y * width + x) * 4 and
\* hold floor(255 r), floor(255 g), floor(255 b) and 255.
C20_BytesAreFloors ==
  wpc \in {"received", "rendered"} =>
    /\ InPixelOrder
    /\ \A j \in 1..Len(wwrites) :
         wwrites[j].value =
           IF (j - 1) % 4 = 3 THEN 255
           ELSE ByteOf(ColorOfPixel((j - 1) \div 4)[(j - 1) % 4])

\* C20 (amended): as C20, the colour bytes being floor(255 r), floor(255 g)
\* and floor(255 b) clamped to 0..255.
C20_BytesAreClampedFloors ==
  wpc \in {"received", "rendered"} =>
    /\ InPixelOrder
    /\ \A j \in 1..Len(wwrites) :
         wwrites[j].value =
           IF (j - 1) % 4 = 3 THEN 255
           ELSE Clamped(ByteOf(ColorOfPixel((j - 1) \div 4)[(j - 1) % 4]))

\* a 2 x 2 image is complete; one of its colour components was above 1 and
\* its byte is 255, another was inside [0, 1) and its byte is the floor
C20_Witness ==
  /\ wpc = "rendered"
  /\ wcommand.width = 2 /\ wcommand.height = 2
  /\ Len(wwrites) = 16
  /\ \E j \in 1..Len(wwrites) :
       /\ (j - 1) % 4 # 3
       /\ ByteOf(ColorOfPixel((j - 1) \div 4)[(j - 1) % 4]) > 255
       /\ wbuffer[j - 1] = 255
  /\ \E j \in 1..Len(wwrites) :
       /\ (j - 1) % 4 # 3
       /\ ByteOf(ColorOfPixel((j - 1) \div 4)[(j - 1) % 4]) \in 1..254
       /\ wbuffer[j - 1] = ByteOf(ColorOfPixel((j - 1) \div 4)[(j - 1) % 4])

\* C25: for each render command optimize is called once, before every call
\* of qbist, and every call of qbist of the command gets the formula as
\* optimize left it and the flags optimize returned.
C25_OptimizeOncePerCommand ==
  wpc \in {"received", "rendered"} =>
    /\ Len(wlog) = 1 + wy * wcommand.width + wx
    /\ wlog[1].call = "optimize"
    /\ \A j \in 2..Len(wlog) :
         /\ wlog[j].call = "qbist"
         /\ wlog[j].info = NormalizeControl(wlog[1].info)
         /\ wlog[j].usedTransFlag = Optimize(wlog[1].info).flags.usedTransFlag
         /\ wlog[j].usedRegFlag = Optimize(wlog[1].info).flags.usedRegFlag

\* a 2 x 2 image is complete: one call of optimize, which changed a control
\* entry of the formula, then four calls of qbist
C25_Witness ==
  /\ wpc = "rendered"
  /\ Len(wlog) = 5
  /\ wlog[1].info # wlog[2].info
  /\ wlog[5].info = wlog[2].info
  /\ \E i \in Steps : wlog[5].usedTransFlag[i]

\* ------------------------------------------------------------------------
\* PreviewCpuRenderer (src/src/PreviewCpuRenderer.ts) and its worker
\* (src/unnamed/part_008).  A promise is the record of one call of render:
\* the request id it was given (Hole if none), whether the command was
\* posted, whether the renderer was disposed when render was called, the
\* number of calls of its resolve or reject, and the first of them.
\* ------------------------------------------------------------------------
MaxRenders == 3

\* lines 20-25 and 55: a promise and the job that settles it
NewPromise(requestId, posted, late, outcome) ==
  [requestId |-> requestId, posted |-> posted, late |-> late,
   settles |-> IF outcome = "pending" THEN 0 ELSE 1, outcome |-> outcome]

\* job.resolve() or job.reject(): a settled promise keeps its first outcome
Settle(promise, outcome) ==
  [promise EXCEPT !.settles = @ + 1,
                  !.outcome = IF @ = "pending" THEN outcome ELSE @]

\* lines 81-83 and 121-123: pendingJobs.forEach(({ reject }) => reject(...))
RejectJobs(promises, jobs) ==
  [i \in DOMAIN promises |->
     IF \E job \in jobs : job.promise = i
     THEN Settle(promises[i], "rejected")
     ELSE promises[i]]

PInit ==
  /\ KIdle /\ GIdle /\ AIdle /\ QIdle /\ CIdle /\ HIdle /\ WIdle /\ PIdle /\ VIdle /\ SIdle /\ EIdle /\ NIdle /\ FIdle /\ MIdle /\ TIdle /\ LIdle

\* lines 43-71: render.  getContext may return null and postMessage may
\* throw; tall says whether the canvas is higher than 256 pixels.
PRender ==
  /\ Len(ppromises) < MaxRenders
  /\ \E contextOk \in BOOLEAN, postOk \in BOOLEAN, tall \in BOOLEAN :
       IF pdisposed
       THEN /\ ppromises' = Append(ppromises,
                                   NewPromise(Hole, FALSE, TRUE, "rejected"))
            /\ UNCHANGED <<pnextRequestId, ppendingJobs, pinbox>>
       ELSE IF ~contextOk
       THEN /\ ppromises' = Append(ppromises,
                                   NewPromise(Hole, FALSE, FALSE, "rejected"))
            /\ UNCHANGED <<pnextRequestId, ppendingJobs, pinbox>>
       ELSE /\ pnextRequestId' = pnextRequestId + 1
            /\ IF postOk
               THEN /\ ppromises' =
                         Append(ppromises,
                                NewPromise(pnextRequestId, TRUE, FALSE,
                                           "pending"))
                    /\ ppendingJobs' = ppendingJobs \cup
                         {[requestId |-> pnextRequestId,
                           promise |-> Len(ppromises) + 1]}
                    /\ pinbox' = Append(pinbox,
                                        [command |-> "render",
                                         requestId |-> pnextRequestId,
                                         tall |-> tall])
               ELSE /\ ppromises' =
                         Append(ppromises,
                                NewPromise(pnextRequestId, FALSE, FALSE,
                                           "rejected"))
                    /\ UNCHANGED <<ppendingJobs, pinbox>>
  /\ UNCHANGED <<pdisposed, poutbox, pterminated, notP>>

\* src/unnamed/part_008:33-78: the worker handles one command; it posts a
\* progress message per row when height > 256 (one stands for them), then
\* the rendered message
PWork ==
  /\ ~pterminated
  /\ pinbox # <<>>
  /\ LET data == Head(pinbox)
         progress == [command |-> "progress", requestId |-> data.requestId]
         rendered == [command |-> "rendered", requestId |-> data.requestId]
     IN poutbox' = poutbox \o
                     (IF data.tall THEN <<progress>> ELSE <<>>) \o
                     <<rendered>>
  /\ pinbox' = Tail(pinbox)
  /\ UNCHANGED <<pdisposed, pnextRequestId, ppendingJobs, ppromises,
                 pterminated, notP>>

\* lines 87-117: handleMessage, called while the listener is attached;
\* painted is false when ImageData or putImageData throws
PHandleMessage ==
  /\ ~pdisposed
  /\ poutbox # <<>>
  /\ poutbox' = Tail(poutbox)
  /\ LET data == Head(poutbox)
         found == {job \in ppendingJobs : job.requestId = data.requestId}
     IN IF data.command = "progress" \/ found = {}
        THEN UNCHANGED <<ppendingJobs, ppromises>>
        ELSE /\ ppendingJobs' = ppendingJobs \ found
             /\ \E painted \in BOOLEAN :
                  ppromises' =
                    [i \in DOMAIN ppromises |->
                       IF \E job \in found : job.promise = i
                       THEN Settle(ppromises[i],
                                   IF painted THEN "resolved" ELSE "rejected")
                       ELSE ppromises[i]]
  /\ UNCHANGED <<pdisposed, pnextRequestId, pinbox, pterminated, notP>>

\* lines 73-85: cleanup
PCleanup ==
  /\ IF pdisposed
     THEN UNCHANGED <<pdisposed, pterminated, ppromises, ppendingJobs>>
     ELSE /\ pdisposed' = TRUE
          /\ pterminated' = TRUE
          /\ ppromises' = RejectJobs(ppromises, ppendingJobs)
          /\ ppendingJobs' = {}
  /\ UNCHANGED <<pnextRequestId, pinbox, poutbox, notP>>

\* mutant: handleError leaves the jobs to cleanup without clearing them
PHandleErrorKeepsJobs ==
  /\ ~pdisposed
  /\ LET rejected == RejectJobs(ppromises, ppendingJobs)
     IN ppromises' = RejectJobs(rejected, ppendingJobs)
  /\ ppendingJobs' = {}
  /\ pdisposed' = TRUE
  /\ pterminated' = TRUE
  /\ UNCHANGED <<pnextRequestId, pinbox, poutbox, notP>>

\* lines 119-126: handleError, called while the listener is attached: it
\* rejects the jobs, clears them and calls cleanup
PHandleError ==
  /\ ~pdisposed
  /\ LET rejected == RejectJobs(ppromises, ppendingJobs)
         cleared == {}
     IN ppromises' = RejectJobs(rejected, cleared)
  /\ ppendingJobs' = {}
  /\ pdisposed' = TRUE
  /\ pterminated' = TRUE
  /\ UNCHANGED <<pnextRequestId, pinbox, poutbox, notP>>

PNext == PRender \/ PWork \/ PHandleMessage \/ PCleanup \/ PHandleError

SpecPreview == PInit /\ [][PNext]_vars

\* C30: no promise of render has resolve or reject called twice;
\* pendingJobs is the set of requests posted and not settled; once the
\* renderer is disposed (by cleanup or by a worker error) no promise is
\* pending, pendingJobs is empty, and a render called after that was
\* rejected without a command being posted.
C30_JobsSettleOnce ==
  /\ \A i \in DOMAIN ppromises : ppromises[i].settles <= 1
  /\ ppendingJobs =
       {[requestId |-> ppromises[i].requestId, promise |-> i] :
          i \in {j \in DOMAIN ppromises :
                   ppromises[j].posted /\ ppromises[j].settles = 0}}
  /\ pdisposed =>
       /\ ppendingJobs = {}
       /\ \A i \in DOMAIN ppromises : ppromises[i].outcome # "pending"
  /\ \A i \in DOMAIN ppromises :
       ppromises[i].late =>
         ~ppromises[i].posted /\ ppromises[i].outcome = "rejected"
  /\ Len(pinbox) + Len(SelectSeq(poutbox, LAMBDA m : m.command = "rendered"))
       <= Cardinality({i \in DOMAIN ppromises : ppromises[i].posted})

\* the renderer was disposed after one render had resolved and while another
\* was pending, and render was called once more afterwards
C30_Witness ==
  /\ pdisposed
  /\ Len(ppromises) = 3
  /\ ppromises[1].outcome = "resolved"
  /\ ppromises[2].posted /\ ppromises[2].outcome = "rejected"
  /\ ppromises[3].late /\ ppromises[3].outcome = "rejected"

\* ------------------------------------------------------------------------
\* PreviewManager (src/src/UIController.ts:355-592) for one preview canvas,
\* with WebGL previews enabled and the shared worker responsive.  The
\* formula passed by the n-th call of updatePreviews is written n.  A task
\* is the chain of promises one call starts for the canvas:
\*   "cpu"      its job waits in the CPU worker (src/unnamed/part_008)
\*   "painting" paintCpuPreview awaits convertToBlob
\*   "delay"    renderPreviewWebGl awaits its timer of index * 40 ms
\*   "gl"       its render waits in the WebGL worker
\*   "raf"      releaseAfterWarmup waits for two animation frames
\*   "done"     nothing of it is left
\* The canvas shows what was drawn into it, or its background image while
\* nothing was drawn.
\* ------------------------------------------------------------------------
MaxUpdates == 2
PreviewIndexes == {0, 1}

NewTask(mode, pc, release) == [mode |-> mode, pc |-> pc, release |-> release]

\* src/unnamed/part_012:99-117: releaseCanvas
ReleaseCanvas(canvas) ==
  [canvas EXCEPT !.backgroundImage = 0, !.previewMode = ""]

\* lines 564-576: releaseAfterWarmup
ReleaseAfterWarmup(canvas, generation, current) ==
  IF generation # current \/ canvas.previewMode = "webgl"
  THEN canvas
  ELSE [ReleaseCanvas(canvas) EXCEPT !.previewMode = "webgl"]

Shown(canvas) ==
  IF canvas.drawn # 0 THEN canvas.drawn ELSE canvas.backgroundImage

VInit ==
  /\ KIdle /\ GIdle /\ AIdle /\ QIdle /\ CIdle /\ HIdle /\ WIdle /\ PIdle
  /\ SIdle /\ EIdle /\ NIdle /\ FIdle /\ MIdle /\ TIdle /\ LIdle
  /\ vgeneration = 0 /\ vindex \in PreviewIndexes /\ vtasks = <<>>
  /\ vcpu = <<>> /\ vgl = <<>>
  /\ vcanvas = [drawn |-> 0, backgroundImage |-> 0, previewMode |-> ""]

\* lines 410-473: updatePreviews, up to the first await of the chain
VUpdatePreviews ==
  /\ vgeneration < MaxUpdates
  /\ vgeneration' = vgeneration + 1
  /\ \E shouldUseWarmup \in BOOLEAN :
       IF shouldUseWarmup
       THEN /\ vtasks' = Append(vtasks, NewTask("warmup", "cpu", FALSE))
            /\ vcpu' = Append(vcpu, vgeneration + 1)
            /\ UNCHANGED vgl
       ELSE IF vcanvas.previewMode = "webgl"
       THEN /\ vtasks' = Append(vtasks, NewTask("standard", "gl", FALSE))
            /\ vgl' = Append(vgl, vgeneration + 1)
            /\ UNCHANGED vcpu
       ELSE /\ vtasks' = Append(vtasks, NewTask("standard", "cpu", FALSE))
            /\ vcpu' = Append(vcpu, vgeneration + 1)
            /\ UNCHANGED vgl
  /\ UNCHANGED <<vindex, vcanvas, notV>>

\* src/unnamed/part_012:119-157 and 171-190: the CPU worker's rendered
\* message; paintCpuPreview runs up to its await of convertToBlob
VCpuRendered ==
  /\ vcpu # <<>>
  /\ vcpu' = Tail(vcpu)
  /\ vtasks' = [vtasks EXCEPT ![Head(vcpu)].pc = "painting"]
  /\ UNCHANGED <<vgeneration, vindex, vgl, vcanvas, notV>>

\* src/unnamed/part_012:191-214: the blob of task t is ready; then
\* renderPreviewCpu (lines 481-485) and, for a warmup, queuePreviewWarmup
\* (491-510), otherwise renderOrchestrated (469-472), each with lines 512-549
\* of renderPreviewWebGl
VPainted ==
  \E t \in DOMAIN vtasks :
    /\ vtasks[t].pc = "painting"
    /\ vcanvas' = [vcanvas EXCEPT !.backgroundImage = t,
                                  !.previewMode = "cpu"]
    /\ IF vtasks[t].mode = "warmup"
       THEN IF t # vgeneration
            THEN /\ vtasks' = [vtasks EXCEPT ![t].pc = "done"]
                 /\ UNCHANGED vgl
            ELSE IF vindex * 40 > 0
            THEN /\ vtasks' = [vtasks EXCEPT ![t].pc = "delay"]
                 /\ UNCHANGED vgl
            ELSE /\ vtasks' = [vtasks EXCEPT ![t].pc = "gl"]
                 /\ vgl' = Append(vgl, t)
       ELSE /\ vtasks' = [vtasks EXCEPT ![t].pc = "gl", ![t].release = TRUE]
            /\ vgl' = Append(vgl, t)
    /\ UNCHANGED <<vgeneration, vindex, vcpu, notV>>

\* lines 531-549: the timer of a warmup fires and its render is posted
VTimer ==
  \E t \in DOMAIN vtasks :
    /\ vtasks[t].pc = "delay"
    /\ vtasks' = [vtasks EXCEPT ![t].pc = "gl"]
    /\ vgl' = Append(vgl, t)
    /\ UNCHANGED <<vgeneration, vindex, vcpu, vcanvas, notV>>

\* src/unnamed/part_012:544-574: the rendered message of the oldest render
\* is drawn; then lines 551-587 of renderPreviewWebGl
VGlRendered ==
  /\ vgl # <<>>
  /\ vgl' = Tail(vgl)
  /\ LET t == Head(vgl)
         drawn == [vcanvas EXCEPT !.drawn = t]
         released == IF vtasks[t].release THEN ReleaseCanvas(drawn)
                     ELSE drawn
     IN IF t # vgeneration
        THEN /\ vcanvas' = drawn
             /\ vtasks' = [vtasks EXCEPT ![t].pc = "done"]
        ELSE IF vtasks[t].mode = "warmup"
        THEN IF released.previewMode = "cpu"
             THEN /\ vcanvas' = released
                  /\ vtasks' = [vtasks EXCEPT ![t].pc = "raf"]
             ELSE /\ vcanvas' = ReleaseAfterWarmup(released, t, vgeneration)
                  /\ vtasks' = [vtasks EXCEPT ![t].pc = "done"]
        ELSE /\ vcanvas' = [released EXCEPT !.previewMode = "webgl"]
             /\ vtasks' = [vtasks EXCEPT ![t].pc = "done"]
  /\ UNCHANGED <<vgeneration, vindex, vcpu, notV>>

\* lines 578-581: the second animation frame after a warmup
VAnimationFrame ==
  \E t \in DOMAIN vtasks :
    /\ vtasks[t].pc = "raf"
    /\ vcanvas' = ReleaseAfterWarmup(vcanvas, t, vgeneration)
    /\ vtasks' = [vtasks EXCEPT ![t].pc = "done"]
    /\ UNCHANGED <<vgeneration, vindex, vcpu, vgl, notV>>

VNext ==
  \/ VUpdatePreviews \/ VCpuRendered \/ VPainted \/ VTimer
  \/ VGlRendered \/ VAnimationFrame

SpecPreviews == VInit /\ [][VNext]_vars

\* C22: when nothing of any call of updatePreviews is left in flight, the
\* canvas shows the image of the formula of the most recent call.
C22_LatestFormulaShown ==
  (vgeneration > 0 /\ \A t \in DOMAIN vtasks : vtasks[t].pc = "done") =>
    Shown(vcanvas) = vgeneration

\* ------------------------------------------------------------------------
\* QbistRenderer and the shared WebGL worker (src/unnamed/part_012:280-607,
\* src/src/workerWebGL.ts:147-460).  The state of the renderer module is the
\* record m of Main; its functions return the module state they leave.
\* Request ids are the indexes of promises; 0 stands for null.
\* ------------------------------------------------------------------------
MaxRequests == 2
MaxQueue == 1

Main ==
  [renderers |-> srenderers, registry |-> sregistry, promises |-> spromises,
   inbox |-> sinbox]

SetMain(m) ==
  /\ srenderers' = m.renderers
  /\ sregistry' = m.registry
  /\ spromises' = m.promises
  /\ sinbox' = m.inbox

\* pending.resolve(...) or pending.reject(...) of request id
SettleRequest(m, id, outcome, reason) ==
  [m EXCEPT !.promises[id].settles = @ + 1,
            !.promises[id].outcome = IF @ = "pending" THEN outcome ELSE @,
            !.promises[id].reason = IF m.promises[id].outcome = "pending"
                                    THEN reason ELSE @]

\* pendingRequests.forEach(({ reject }) => reject(...)): a Map iterates in
\* the order of insertion, which is the order of the request ids
RECURSIVE RejectRequests(_, _, _)
RejectRequests(m, ids, reason) ==
  IF ids = {} THEN m
  ELSE LET id == CHOOSE i \in ids : \A j \in ids : i <= j
       IN RejectRequests(SettleRequest(m, id, "rejected", reason),
                         ids \ {id}, reason)

\* part_012:362-397: the constructor; the renderer id is the id of the canvas
NewRenderer(m, canvasId) ==
  [m EXCEPT !.renderers =
              Append(@, [rendererId |-> canvasId, pendingRequests |-> {},
                         activeRequestId |-> 0, keepAlive |-> FALSE,
                         worker |-> TRUE]),
            !.registry[canvasId] = Len(m.renderers) + 1]

\* part_012:450-506: render; posted is false when postMessage throws
Render(m, r, keepAlive, isExport, posted) ==
  LET requestId == Len(m.promises) + 1
      called ==
        [m EXCEPT !.renderers[r].keepAlive = keepAlive,
                  !.renderers[r].worker = TRUE,
                  !.renderers[r].activeRequestId = requestId,
                  !.renderers[r].pendingRequests = @ \cup {requestId},
                  !.promises =
                    Append(@, [renderer |-> r, keepAlive |-> keepAlive,
                               settles |-> 0, outcome |-> "pending",
                               reason |-> ""])]
  IN IF posted
     THEN [called EXCEPT !.inbox =
             Append(@, [type |-> "render",
                        canvasId |-> m.renderers[r].rendererId,
                        requestId |-> requestId, keepAlive |-> keepAlive,
                        isExport |-> isExport])]
     ELSE SettleRequest(
            [called EXCEPT !.renderers[r].pendingRequests = @ \ {requestId}],
            requestId, "rejected", "postMessage")

\* part_012:508-521: update
Update(m, r) ==
  IF ~m.renderers[r].worker \/ m.renderers[r].activeRequestId = 0
  THEN m
  ELSE [m EXCEPT !.inbox =
          Append(@, [type |-> "update",
                     canvasId |-> m.renderers[r].rendererId,
                     requestId |-> m.renderers[r].activeRequestId,
                     keepAlive |-> m.renderers[r].keepAlive,
                     isExport |-> FALSE])]

\* part_012:523-542: cleanup
Cleanup(m, r) ==
  LET rejected == RejectRequests(m, m.renderers[r].pendingRequests,
                                 "Renderer cleaned up")
  IN [rejected EXCEPT !.renderers[r].pendingRequests = {},
                      !.registry[m.renderers[r].rendererId] = 0,
                      !.renderers[r].activeRequestId = 0,
                      !.renderers[r].keepAlive = FALSE,
                      !.renderers[r].worker = FALSE]

\* mutant: the request stays in pendingRequests when its message arrives
ReceiveWorkerMessageKeepsPending(m, data) ==
  LET r == m.registry[data.canvasId] IN
  IF r = 0 \/ data.requestId \notin m.renderers[r].pendingRequests
  THEN m
  ELSE LET settledNow ==
             IF data.command = "rendered"
             THEN SettleRequest(m, data.requestId, "resolved", "")
             ELSE SettleRequest(m, data.requestId, "rejected", data.message)
       IN IF ~m.promises[data.requestId].keepAlive
             /\ m.renderers[r].activeRequestId = data.requestId
          THEN [settledNow EXCEPT !.renderers[r].activeRequestId = 0]
          ELSE settledNow

\* part_012:324-338 and 544-607: the message listener of the shared worker
\* and receiveWorkerMessage of the renderer registered under the canvas id
ReceiveWorkerMessage(m, data) ==
  LET r == m.registry[data.canvasId] IN
  IF r = 0 \/ data.requestId \notin m.renderers[r].pendingRequests
  THEN m
  ELSE LET removed ==
             [m EXCEPT !.renderers[r].pendingRequests = @ \ {data.requestId}]
           settledNow ==
             IF data.command = "rendered"
             THEN SettleRequest(removed, data.requestId, "resolved", "")
             ELSE SettleRequest(removed, data.requestId, "rejected",
                                data.message)
       IN IF ~m.promises[data.requestId].keepAlive
             /\ m.renderers[r].activeRequestId = data.requestId
          THEN [settledNow EXCEPT !.renderers[r].activeRequestId = 0]
          ELSE settledNow

\* part_012:339-344 and 609-624: the error listener calls handleWorkerFailure
\* of every registered renderer
RECURSIVE HandleWorkerFailure(_, _)
HandleWorkerFailure(m, rs) ==
  IF rs = {} THEN m
  ELSE LET r == CHOOSE i \in rs : \A j \in rs : i <= j
           rejected == RejectRequests(m, m.renderers[r].pendingRequests,
                                      "WebGL worker failed")
       IN HandleWorkerFailure(
            [rejected EXCEPT !.renderers[r].pendingRequests = {},
                             !.renderers[r].activeRequestId = 0,
                             !.renderers[r].worker = FALSE],
            rs \ {r})

Registered(m) == {m.registry[c] : c \in CanvasIds} \ {0}

\* workerWebGL.ts:409-460: the messages exportFromContext and sendRenderError
\* post
RenderedMessage(canvasId, requestId, keepAlive) ==
  [command |-> "rendered", canvasId |-> canvasId, requestId |-> requestId,
   keepAlive |-> keepAlive, message |-> ""]

ErrorMessage(canvasId, requestId, message) ==
  [command |-> "error", canvasId |-> canvasId, requestId |-> requestId,
   keepAlive |-> FALSE, message |-> message]

\* workerWebGL.ts:147-185 and 252-332: handleRenderMessage for a render or an
\* update message.  available is false when getContext('webgl2') fails.  The
\* result is the context and the messages posted before the handler returns.
HandleRenderMessage(context, message, available) ==
  IF ~context.created /\ ~available
  THEN [context |-> context,
        posted |-> <<ErrorMessage(message.canvasId, message.requestId,
                                  "WebGL2 not available")>>]
  ELSE LET type == IF message.isExport THEN "export"
                   ELSE IF message.keepAlive THEN "animation"
                   ELSE "interactive"
           received == [context EXCEPT !.created = TRUE,
                                       !.canvasId = message.canvasId,
                                       !.pendingFrame = 0,
                                       !.type = type,
                                       !.keepAlive = message.keepAlive]
       IN IF type = "animation"
          THEN [context |-> [received EXCEPT
                               !.pendingFrame = message.requestId],
                posted |-> <<>>]
          ELSE [context |-> IF type = "export"
                            THEN [received EXCEPT !.type = "interactive",
                                                  !.keepAlive = FALSE]
                            ELSE received,
                posted |-> <<RenderedMessage(message.canvasId,
                                             message.requestId,
                                             message.keepAlive)>>]

\* the module state before any renderer exists (part_012:293-307)
NoMain ==
  [renderers |-> <<>>, registry |-> [c \in CanvasIds |-> 0],
   promises |-> <<>>, inbox |-> <<>>]

\* one renderer has been constructed for each canvas
SInit ==
  /\ KIdle /\ GIdle /\ AIdle /\ QIdle /\ CIdle /\ HIdle /\ WIdle /\ PIdle
  /\ VIdle /\ EIdle /\ NIdle /\ FIdle /\ MIdle /\ TIdle /\ LIdle
  /\ LET m == NewRenderer(NewRenderer(NoMain, "mainCanvas"), "preview0")
     IN /\ srenderers = m.renderers
        /\ sregistry = m.registry
        /\ spromises = m.promises
        /\ sinbox = m.inbox
  /\ soutbox = <<>>
  /\ scontext = NoContext

\* the options of the renders of each canvas: the main canvas is animated,
\* the other canvas gets one-shot renders and exports
RenderOptions(canvasId) ==
  IF canvasId = "mainCanvas"
  THEN {[keepAlive |-> TRUE, isExport |-> FALSE]}
  ELSE {[keepAlive |-> FALSE, isExport |-> FALSE],
        [keepAlive |-> FALSE, isExport |-> TRUE]}

\* renderer.render(info, options) on a renderer in use
SRender ==
  /\ Len(spromises) < MaxRequests
  /\ \E r \in Registered(Main) :
       \E options \in RenderOptions(srenderers[r].rendererId) :
         \E posted \in BOOLEAN :
           SetMain(Render(Main, r, options.keepAlive, options.isExport,
                          posted))
  /\ UNCHANGED <<soutbox, scontext, notS>>

\* renderer.update(info) on a renderer in use
SUpdate ==
  /\ Len(sinbox) < MaxQueue
  /\ \E r \in Registered(Main) : SetMain(Update(Main, r))
  /\ Main.inbox # sinbox'
  /\ UNCHANGED <<soutbox, scontext, notS>>

\* renderer.cleanup() on a renderer in use
SCleanup ==
  /\ \E r \in Registered(Main) : SetMain(Cleanup(Main, r))
  /\ UNCHANGED <<soutbox, scontext, notS>>

\* the worker handles its oldest message
SWorkerMessage ==
  /\ sinbox # <<>>
  /\ Len(soutbox) < MaxQueue
  /\ \E available \in BOOLEAN :
       LET result == HandleRenderMessage(scontext, Head(sinbox), available)
       IN /\ scontext' = result.context
          /\ soutbox' = soutbox \o result.posted
  /\ sinbox' = Tail(sinbox)
  /\ UNCHANGED <<srenderers, sregistry, spromises, notS>>

\* workerWebGL.ts:297-323 and 334-358: the frame the worker requested is
\* drawn; an animation requests the next one
SWorkerFrame ==
  /\ scontext.pendingFrame # 0
  /\ Len(soutbox) < MaxQueue
  /\ soutbox' = Append(soutbox,
                       RenderedMessage(scontext.canvasId,
                                       scontext.pendingFrame,
                                       scontext.keepAlive))
  /\ scontext' = IF scontext.type = "animation" /\ scontext.keepAlive
                 THEN scontext
                 ELSE [scontext EXCEPT !.pendingFrame = 0]
  /\ UNCHANGED <<srenderers, sregistry, spromises, sinbox, notS>>

\* the main thread dispatches the oldest message of the worker
SReceive ==
  /\ soutbox # <<>>
  /\ SetMain(ReceiveWorkerMessage(Main, Head(soutbox)))
  /\ soutbox' = Tail(soutbox)
  /\ UNCHANGED <<scontext, notS>>

\* the error event of the shared worker
SWorkerError ==
  /\ \E id \in DOMAIN spromises : spromises[id].outcome = "pending"
  /\ SetMain(HandleWorkerFailure(Main, Registered(Main)))
  /\ UNCHANGED <<soutbox, scontext, notS>>

SNext ==
  \/ SRender \/ SUpdate \/ SCleanup
  \/ SWorkerMessage \/ SWorkerFrame \/ SReceive \/ SWorkerError

SpecShared == SInit /\ [][SNext]_vars

\* C27: in every step no promise has been settled twice; a message of the
\* worker settles at most the request it carries, and only if that request
\* is pending on the renderer registered under its canvas id; the requests
\* rejected by a cleanup are the pending requests of one renderer, all of
\* them.
C27_MessageSettlesItsRequest ==
  [][/\ \A id \in DOMAIN spromises' : spromises'[id].settles <= 1
     /\ (soutbox # <<>> /\ soutbox' = Tail(soutbox)) =>
          LET data == Head(soutbox)
              r == sregistry[data.canvasId]
              known == r # 0 /\ data.requestId \in srenderers[r].pendingRequests
          IN /\ \A id \in DOMAIN spromises :
                  (id # data.requestId \/ ~known) =>
                    spromises'[id] = spromises[id]
             /\ known => spromises'[data.requestId].settles = 1
     /\ \A id \in DOMAIN spromises :
          (spromises[id].outcome = "pending"
             /\ spromises'[id].reason = "Renderer cleaned up") =>
            LET r == spromises[id].renderer
            IN \A j \in DOMAIN spromises :
                 spromises[j].outcome = "pending" =>
                   IF j \in srenderers[r].pendingRequests
                   THEN spromises'[j].reason = "Renderer cleaned up"
                   ELSE spromises'[j] = spromises[j]
    ]_vars

\* a second rendered message of an animation has been dispatched after its
\* request was resolved, and a cleanup has rejected a request of the other
\* renderer
C27_Witness ==
  /\ \E id \in DOMAIN spromises :
       /\ spromises[id].keepAlive /\ spromises[id].outcome = "resolved"
       /\ scontext.pendingFrame = id
       /\ soutbox = <<>>
  /\ \E id \in DOMAIN spromises :
       spromises[id].reason = "Renderer cleaned up"

\* The same program under the scheduling the claim assumes: the worker keeps
\* handling its messages and drawing the frames it requested, and the main
\* thread keeps dispatching the worker's messages.  The fairness is strong
\* because a full queue disables a step of the model that the event loop
\* would take all the same.  Calls of render, update and cleanup, and worker
\* errors, may stop at any time.
SpecSharedFair ==
  /\ SInit /\ [][SNext]_vars
  /\ SF_vars(SWorkerMessage) /\ SF_vars(SWorkerFrame) /\ SF_vars(SReceive)

\* C26: every promise render returned is eventually resolved or rejected.
C26_EveryRequestAnswered ==
  \A id \in 1..MaxRequests :
    (id \in DOMAIN spromises /\ spromises[id].outcome = "pending")
      ~> (id \in DOMAIN spromises /\ spromises[id].outcome # "pending")

\* ------------------------------------------------------------------------
\* QbistExporter (src/unnamed/part_009) on top of the renderer module.  A
\* call of exportImage is the record of the request it awaits, the canvas it
\* created and where it stands: "awaiting", "downloaded" or "failed".  The
\* continuation of a call is a microtask: emicro holds the calls whose promise
\* has settled, oldest first, and the main thread takes no other step while
\* it is not empty.
\* ------------------------------------------------------------------------
MaxExports == 3

\* the calls among waiting whose promise m has settled, oldest first
RECURSIVE Woken(_, _, _)
Woken(exports, m, waiting) ==
  IF waiting = {} THEN <<>>
  ELSE LET c == CHOOSE i \in waiting : \A j \in waiting : i <= j
           rest == Woken(exports, m, waiting \ {c})
       IN IF m.promises[exports[c].requestId].outcome # "pending"
          THEN <<c>> \o rest
          ELSE rest

Awaiting(exports, micro) ==
  {c \in DOMAIN exports :
     exports[c].pc = "awaiting" /\ \A k \in DOMAIN micro : micro[k] # c}

\* lines 102-112: cleanup, on the fields of the exporter as they are now
ExporterCleanup(x) ==
  LET m == IF x.renderer # 0 THEN Cleanup(x.m, x.renderer) ELSE x.m
      attached == x.exportCanvas # 0 /\ x.exportCanvas \in x.body
  IN [x EXCEPT !.m = m,
               !.renderer = 0,
               !.body = IF attached THEN @ \ {x.exportCanvas} ELSE @,
               !.exportCanvas = IF attached THEN 0 ELSE @]

Exporter ==
  [m |-> Main, renderer |-> erenderer, exportCanvas |-> eexportCanvas,
   body |-> ebody]

SetExporter(x) ==
  /\ SetMain(x.m)
  /\ erenderer' = x.renderer
  /\ eexportCanvas' = x.exportCanvas
  /\ ebody' = x.body

EInit ==
  /\ KIdle /\ GIdle /\ AIdle /\ QIdle /\ CIdle /\ HIdle /\ WIdle /\ PIdle
  /\ VIdle /\ SIdle /\ EIdle /\ NIdle /\ FIdle /\ MIdle /\ TIdle /\ LIdle

\* lines 11-21: exportImage up to its await
EExportImage ==
  /\ emicro = <<>>
  /\ Len(ecalls) < MaxExports
  /\ LET cleaned == ExporterCleanup(Exporter)
         canvas == Len(ecalls) + 1
         created == NewRenderer(cleaned.m, "exportCanvas")
         r == Len(created.renderers)
         rendered == Render(created, r, FALSE, TRUE, TRUE)
         exports == Append(ecalls, [requestId |-> Len(rendered.promises),
                                  canvas |-> canvas, pc |-> "awaiting"])
     IN /\ SetExporter([m |-> rendered, renderer |-> r,
                        exportCanvas |-> canvas,
                        body |-> cleaned.body \cup {canvas}])
        /\ ecalls' = exports
        /\ emicro' = Woken(ecalls, rendered, Awaiting(ecalls, emicro))
  /\ UNCHANGED <<soutbox, scontext, notE>>

\* lines 21-31: the render of the oldest settled call has resolved or
\* rejected: the download if it resolved, then the finally block
EFinally ==
  /\ emicro # <<>>
  /\ LET c == Head(emicro)
         resolved == spromises[ecalls[c].requestId].outcome = "resolved"
         cleaned == ExporterCleanup(Exporter)
         exports == [ecalls EXCEPT ![c].pc = IF resolved THEN "downloaded"
                                           ELSE "failed"]
     IN /\ SetExporter(cleaned)
        /\ ecalls' = exports
        /\ emicro' = Tail(emicro) \o
                       Woken(exports, cleaned.m, Awaiting(exports, Tail(emicro)))
  /\ UNCHANGED <<soutbox, scontext, notE>>

\* the main thread dispatches the oldest message of the worker
EReceive ==
  /\ emicro = <<>>
  /\ soutbox # <<>>
  /\ LET m == ReceiveWorkerMessage(Main, Head(soutbox))
     IN /\ SetMain(m)
        /\ emicro' = Woken(ecalls, m, Awaiting(ecalls, emicro))
  /\ soutbox' = Tail(soutbox)
  /\ UNCHANGED <<scontext, erenderer, eexportCanvas, ebody, ecalls, notE>>

\* the error event of the shared worker
EWorkerError ==
  /\ emicro = <<>>
  /\ \E id \in DOMAIN spromises : spromises[id].outcome = "pending"
  /\ LET m == HandleWorkerFailure(Main, Registered(Main))
     IN /\ SetMain(m)
        /\ emicro' = Woken(ecalls, m, Awaiting(ecalls, emicro))
  /\ UNCHANGED <<soutbox, scontext, erenderer, eexportCanvas, ebody, ecalls,
                 notE>>

\* the worker handles its oldest message
EWorkerMessage ==
  /\ SWorkerMessage
  /\ UNCHANGED evars

ENext ==
  \/ EExportImage \/ EFinally \/ EReceive \/ EWorkerError \/ EWorkerMessage

SpecExport == EInit /\ [][ENext]_vars

\* C28: the request of the most recent call of exportImage is never rejected
\* by a cleanup, which only an earlier call can have run.
C28_LaterExportCompletes ==
  ecalls # <<>> =>
    spromises[ecalls[Len(ecalls)].requestId].reason # "Renderer cleaned up"

(***************************************************************************)
(* The CPU worker's message listener, src/unnamed/part_008 lines 33-78, at *)
(* the level of the messages it posts.  The pixels of a row are the loop   *)
(* SpecWorker steps through; here a row is one step.  A JavaScript worker  *)
(* runs a listener to completion before it takes the next message, so the  *)
(* messages wait in arrival order while the rows of one command are done.  *)
(***************************************************************************)
MaxCommands == 2
ProgressHeight == 256
MaxHeight == 257
\* The messages sent to the worker: render commands of a low, a threshold
\* and a tall canvas, two of them under the same request id, and a message
\* that is no render command.
ListenerMessages ==
  { [command |-> "render", requestId |-> 1, width |-> 1, height |-> 1],
    [command |-> "render", requestId |-> 2, width |-> 2, height |-> ProgressHeight],
    [command |-> "render", requestId |-> 1, width |-> 2, height |-> MaxHeight],
    [command |-> "ping", requestId |-> 2, width |-> 1, height |-> MaxHeight] }

\* Math.floor((y / height) * 100), line 42.  For 0 <= y < height <= 258 the
\* double quotient times 100 is within 1e-13 of the exact value, which is
\* an integer or at least 1/258 away from one, and the integer cases
\* (y = 0, y / height = 1/2) are exact in doubles: the floor is the
\* integer quotient.
Progress(y, height) == (y * 100) \div height

LInit ==
  /\ KIdle /\ GIdle /\ AIdle /\ QIdle /\ CIdle /\ HIdle /\ WIdle
  /\ PIdle /\ VIdle /\ SIdle /\ EIdle /\ NIdle /\ FIdle /\ MIdle /\ TIdle /\ LIdle

\* A message is posted to the worker.
LArrive ==
  /\ Len(larrived) < MaxCommands
  /\ \E data \in ListenerMessages : larrived' = Append(larrived, data)
  /\ UNCHANGED <<lpc, lcount, ly, lposted, notL>>

\* The listener takes the next message; line 35 returns on anything that is
\* no render command.
LReceive ==
  /\ lpc = "idle"
  /\ lcount < Len(larrived)
  /\ lcount' = lcount + 1
  /\ ly' = 0
  /\ lpc' = IF larrived[lcount + 1].command # "render" THEN "idle" ELSE "rows"
  /\ UNCHANGED <<larrived, lposted, notL>>

\* One turn of the loop over y, lines 41-66, with a threshold that also
\* reports the rows of a canvas of exactly ProgressHeight rows.
LRowAtThreshold ==
  /\ lpc = "rows"
  /\ ly < larrived[lcount].height
  /\ lposted' =
       IF larrived[lcount].height >= ProgressHeight
       THEN Append(lposted, [command |-> "progress",
                             requestId |-> larrived[lcount].requestId,
                             progress |-> Progress(ly, larrived[lcount].height),
                             of |-> lcount])
       ELSE lposted
  /\ ly' = ly + 1
  /\ UNCHANGED <<lpc, larrived, lcount, notL>>

\* One turn of the loop over y, lines 41-66: the progress message of lines
\* 43-45 and then the pixels of the row.
LRow ==
  /\ lpc = "rows"
  /\ ly < larrived[lcount].height
  /\ lposted' =
       IF larrived[lcount].height > ProgressHeight
       THEN Append(lposted, [command |-> "progress",
                             requestId |-> larrived[lcount].requestId,
                             progress |-> Progress(ly, larrived[lcount].height),
                             of |-> lcount])
       ELSE lposted
  /\ ly' = ly + 1
  /\ UNCHANGED <<lpc, larrived, lcount, notL>>

\* Lines 68-77: the loop is over and the 'rendered' message is posted.
LPost ==
  /\ lpc = "rows"
  /\ ly = larrived[lcount].height
  /\ lposted' = Append(lposted, [command |-> "rendered",
                                 requestId |-> larrived[lcount].requestId,
                                 width |-> larrived[lcount].width,
                                 height |-> larrived[lcount].height,
                                 of |-> lcount])
  /\ lpc' = "idle"
  /\ UNCHANGED <<larrived, lcount, ly, notL>>

LNext == LArrive \/ LReceive \/ LRow \/ LPost

SpecListener == LInit /\ [][LNext]_vars

\* The positions in lposted of the messages of one kind that answer the
\* k-th message received.
PostedFor(k, kind) ==
  {i \in 1..Len(lposted) : lposted[i].of = k /\ lposted[i].command = kind}

\* Whether the listener has finished with the k-th message.
Answered(k) == k < lcount \/ (k = lcount /\ lpc = "idle")

\* C31: every render command gets exactly one 'rendered' message, with its
\* requestId, width and height, posted after all its 'progress' messages;
\* progress messages are posted only for a height above 256, one per row,
\* with non-decreasing values between 0 and 99; and the commands are
\* answered in the order they arrived.  Messages that are no render command
\* get no answer.
C31_RenderedOncePerCommand ==
  \* in arrival order, and nothing of a command follows its 'rendered'
  /\ \A i \in 1..(Len(lposted) - 1) :
       /\ lposted[i].of <= lposted[i + 1].of
       /\ lposted[i].command = "rendered" => lposted[i].of < lposted[i + 1].of
       /\ lposted[i].command = "progress" /\ lposted[i + 1].command = "progress"
            /\ lposted[i].of = lposted[i + 1].of =>
              lposted[i].progress <= lposted[i + 1].progress
  /\ \A k \in 1..Len(larrived) :
       LET data == larrived[k]
           rendered == PostedFor(k, "rendered")
           progress == PostedFor(k, "progress")
       IN  /\ data.command # "render" => rendered = {} /\ progress = {}
           /\ data.command = "render" =>
                /\ Cardinality(rendered) = IF Answered(k) THEN 1 ELSE 0
                /\ \A i \in rendered :
                     /\ lposted[i].requestId = data.requestId
                     /\ lposted[i].width = data.width
                     /\ lposted[i].height = data.height
                /\ progress # {} => data.height > ProgressHeight
                /\ Answered(k) /\ data.height > ProgressHeight =>
                     Cardinality(progress) = data.height
                /\ k = lcount /\ lpc = "rows" /\ data.height > ProgressHeight =>
                     Cardinality(progress) = ly
                /\ \A i \in progress :
                     /\ lposted[i].requestId = data.requestId
                     /\ lposted[i].progress \in 0..99

\* A tall canvas and a canvas of exactly 256 rows have both been answered,
\* the first with a progress message for every row, the last one reaching 99.
C31_Witness ==
  /\ lpc = "idle" /\ lcount = 2
  /\ larrived[1].height = MaxHeight /\ larrived[1].command = "render"
  /\ larrived[2].height = ProgressHeight
  /\ Cardinality(PostedFor(1, "progress")) = MaxHeight
  /\ \E i \in PostedFor(1, "progress") : lposted[i].progress = 99
  /\ Cardinality(PostedFor(2, "rendered")) = 1

\* ------------------------------------------------------------------------
\* The walk of optimize as a computation: its calls, and a memoized form
\* ------------------------------------------------------------------------
\* The number of calls of checkLastModified a call with arguments (p0, n)
\* makes, itself included (lines 99-111: two recursive calls per step found).
RECURSIVE WalkCalls(_, _, _)
WalkCalls(info, p0, n) ==
  LET p == ScanBack(info, p0 - 1, n) IN
  IF p < 0 THEN 1
  ELSE 1 + WalkCalls(info, p, info.source[p])
         + WalkCalls(info, p, info.control[p])

\* Backward reachability with a worklist of (position, register) pairs: a
\* pair is scanned once, when it is taken from the worklist, and is never
\* put back.
RECURSIVE MarkLiveMemo(_, _, _, _)
MarkLiveMemo(info, work, visited, flags) ==
  IF work = {}
  THEN [steps |-> flags.steps, regs |-> flags.regs, visited |-> visited]
  ELSE LET pair == CHOOSE w \in work : TRUE
           p == ScanBack(info, pair[1] - 1, pair[2])
           next == IF p < 0 THEN {}
                   ELSE {<<p, info.source[p]>>, <<p, info.control[p]>>}
       IN MarkLiveMemo(info,
                       (work \ {pair}) \cup (next \ (visited \cup {pair})),
                       visited \cup {pair},
                       IF p < 0
                       THEN [flags EXCEPT !.regs = @ \cup {pair[2]}]
                       ELSE [flags EXCEPT !.steps = @ \cup {p}])

Memoized(info) ==
  MarkLiveMemo(info, {<<MAX_TRANSFORMS, 0>>}, {}, [steps |-> {}, regs |-> {}])

SameFlags(flags, memo) ==
  /\ flags.usedTransFlag = [i \in Steps |-> i \in memo.steps]
  /\ flags.usedRegFlag = [r \in Registers |-> r \in memo.regs]

\* C32: the flags the recursive walk checkLastModified(36, 0) returns are
\* those of the memoized backward reachability over the same normalized
\* formula, which visits each (position, register) pair at most once.
C32_WalkEqualsMemoized ==
  /\ Optimized => SameFlags(liveness, Memoized(formula))
  /\ kpc = "compared" => SameFlags(other.liveness, Memoized(other.info))

\* The recursive walk has made more calls than there are pairs: it came to
\* some pair more than once.
C32_Witness ==
  /\ Optimized
  /\ WalkCalls(formula, MAX_TRANSFORMS, 0)
       > Cardinality(Memoized(formula).visited)
  /\ \E i \in FirstFree..(MAX_TRANSFORMS - 1) : ~usedTransFlag[i]

\* The second formula of KOptimizeOther differs from the first only in the
\* control a step of a kind that ignores control held before normalization.
OnlyIgnoredControlDiffers ==
  /\ other.info0.transformSequence = formula0.transformSequence
  /\ \A i \in Steps :
       other.info0.control[i] # formula0.control[i] =>
         IgnoresControl(formula0.transformSequence[i])

FlagsIgnoreAliasedControl ==
  kpc = "compared" /\ OnlyIgnoredControlDiffers => other.liveness = liveness

\* The flags of a walk that follows, at a ROTATE, ROTATE2 or COMPLEMENT
\* step, the source operand only.
FlagsThroughSource(info) ==
  LET set == CheckLastModifiedByKind(info, MAX_TRANSFORMS, 0)
  IN [usedTransFlag |-> [i \in Steps |-> i \in set.steps],
      usedRegFlag |-> [r \in Registers |-> r \in set.regs]]

AliasFlagsNothingMore == Optimized => liveness = FlagsThroughSource(formula)

\* C33: the flags optimize returns do not depend on the control a ROTATE,
\* ROTATE2 or COMPLEMENT step held before normalization, and such a step
\* causes no step and no register seed to be flagged other than those
\* reachable through its source operand.
C33_AliasAddsNoDependency ==
  FlagsIgnoreAliasedControl /\ AliasFlagsNothingMore

(***************************************************************************)
(* The walk of optimize as a run, src/src/qbist.ts lines 99-112: how many  *)
(* calls of checkLastModified it makes and how deep they nest.  The        *)
(* formulas end in a chain of equal steps, each reading what the step      *)
(* before it wrote; import and the URL state accept any such formula.      *)
(***************************************************************************)
CallLimit == 1000000

\* Counts above CallLimit are kept as CallLimit + 1.
UpToLimit(count) == IF count > CallLimit THEN CallLimit + 1 ELSE count

Max(a, b) == IF a >= b THEN a ELSE b

\* What the call checkLastModified(p0, n) costs, given in table the costs of
\* the calls with a smaller position (table[p + 1][n + 1] for position p and
\* register n): the calls it makes, itself included, and the recursive calls
\* nested inside one another below it.
WalkOf(info, table, p0, n) ==
  LET p == ScanBack(info, p0 - 1, n) IN
  IF p < 0 THEN [calls |-> 1, depth |-> 0]
  ELSE LET a == table[p + 1][info.source[p] + 1]
           b == table[p + 1][info.control[p] + 1]
       IN [calls |-> UpToLimit(1 + a.calls + b.calls),
           depth |-> 1 + Max(a.depth, b.depth)]

\* The costs of the calls at position p0 for the registers from n on.
RECURSIVE WalkRow(_, _, _, _)
WalkRow(info, table, p0, n) ==
  IF n = NUM_REGISTERS THEN <<>>
  ELSE <<WalkOf(info, table, p0, n)>> \o WalkRow(info, table, p0, n + 1)

\* The costs of the calls at positions p0..MAX_TRANSFORMS added to table.
\* A recursive call is made with the position the scan stopped at, which is
\* below the caller's, so the table is filled from position 0 upwards.
RECURSIVE WalkTable(_, _, _)
WalkTable(info, p0, table) ==
  IF p0 > MAX_TRANSFORMS THEN table
  ELSE WalkTable(info, p0 + 1, Append(table, WalkRow(info, table, p0, 0)))

\* The cost of checkLastModified(MAX_TRANSFORMS, 0) on the normalized formula.
Walk(info) ==
  WalkTable(NormalizeControl(info), 0, <<>>)[MAX_TRANSFORMS + 1][1]

\* BaseStep up to the last length steps, which are all the given step.
ChainFormula(length, step) ==
  LET at(i) == IF i >= MAX_TRANSFORMS - length THEN step ELSE BaseStep(i)
  IN [transformSequence |-> [i \in Steps |-> at(i).kind],
      source |-> [i \in Steps |-> at(i).source],
      control |-> [i \in Steps |-> at(i).control],
      dest |-> [i \in Steps |-> at(i).dest]]

ChainFormulas ==
  {ChainFormula(length, Step(kind, s, c, 0)) :
     length \in 0..MAX_TRANSFORMS, kind \in KindDraws,
     s \in RegDraws, c \in RegDraws}

TInit ==
  /\ tpc = "created"
  /\ tformula \in ChainFormulas
  /\ twalk = [calls |-> 0, depth |-> 0]
  /\ KIdle /\ GIdle /\ AIdle /\ QIdle /\ CIdle /\ HIdle /\ WIdle
  /\ PIdle /\ VIdle /\ SIdle /\ EIdle /\ NIdle /\ FIdle /\ MIdle /\ LIdle

\* optimize(tformula): the normalization loop and the walk
TOptimize ==
  /\ tpc = "created"
  /\ twalk' = Walk(tformula)
  /\ tformula' = NormalizeControl(tformula)
  /\ tpc' = "walked"
  /\ UNCHANGED notT

TNext == TOptimize

SpecWalk == TInit /\ [][TNext]_vars

\* Every recursive call has a smaller position than its caller and the
\* calls nest at most MAX_TRANSFORMS deep.
WalkDepthBounded ==
  tpc = "walked" =>
    /\ twalk.depth <= MAX_TRANSFORMS
    /\ \A p0 \in 0..MAX_TRANSFORMS, n \in Registers :
         ScanBack(tformula, p0 - 1, n) < p0

\* C34: optimize terminates for every valid formula: every recursive call
\* of checkLastModified has a smaller position than its caller, the
\* recursion is never deeper than 36, and the number of calls stays small
\* (here: at most CallLimit) whatever the formula.
C34_WalkIsSmall ==
  /\ WalkDepthBounded
  /\ tpc = "walked" => twalk.calls <= CallLimit

(***************************************************************************)
(* modifyInfo as a run, src/src/qbist.ts lines 49-83: the copy, the draw   *)
(* of n, and the loop one turn at a time.                                  *)
(***************************************************************************)
\* Streams of Math.random() values that reach every case of the switch,
\* the first and the last index, and turns that choose an entry again.
ModifyStreams ==
  [seed : {0, 5, 23, RandRes - 1}, stride : {0, 11, 37}]

ModifyBases == {Filler, Aliased}

MInit ==
  /\ mpc = "called"
  /\ mstream \in ModifyStreams
  /\ mbase \in ModifyBases
  /\ mnew = NoInfo /\ mlast = NoInfo /\ mn = 0 /\ mk = 0
  /\ KIdle /\ GIdle /\ AIdle /\ QIdle /\ CIdle /\ HIdle /\ WIdle
  /\ PIdle /\ VIdle /\ SIdle /\ EIdle /\ NIdle /\ FIdle /\ TIdle /\ LIdle

\* lines 50-56: the four slices and n
MCopy ==
  /\ mpc = "called"
  /\ mnew' = mbase
  /\ mlast' = mbase
  /\ mn' = RandomInt(Rand(mstream, 0), 0, MAX_TRANSFORMS)
  /\ mk' = 0
  /\ mpc' = "loop"
  /\ UNCHANGED <<mstream, mbase, notM>>

\* lines 57-80: one turn of the loop
MEdit ==
  /\ mpc = "loop"
  /\ mk < mn
  /\ mlast' = mnew
  /\ mnew' = ModifyOnce(mnew, mstream, 1 + 3 * mk)
  /\ mk' = mk + 1
  /\ UNCHANGED <<mpc, mstream, mbase, mn, notM>>

\* line 82: return newInfo
MReturn ==
  /\ mpc = "loop"
  /\ mk = mn
  /\ mpc' = "returned"
  /\ UNCHANGED <<mstream, mbase, mnew, mlast, mn, mk, notM>>

MNext == MCopy \/ MEdit \/ MReturn

SpecModify == MInit /\ [][MNext]_vars

FieldNames == {"transformSequence", "source", "control", "dest"}
DomainOf(field) ==
  IF field = "transformSequence" THEN 0..(NUM_TRANSFORM_TYPES - 1)
  ELSE Registers

\* The (field, step index) positions where two formulas differ; an array
\* of another length differs at every index either of them has.
Differences(f, g) ==
  UNION {{<<field, i>> :
            i \in {j \in DOMAIN f[field] \cup DOMAIN g[field] :
                     \/ j \notin DOMAIN f[field]
                     \/ j \notin DOMAIN g[field]
                     \/ f[field][j] # g[field][j]}} :
         field \in FieldNames}

\* C35: modifyInfo(base) makes n edits with 0 <= n <= 35; each edit
\* overwrites one entry of one of the four arrays with a value of that
\* field's domain; every entry no edit chose equals that of base, so the
\* result differs from base in at most 35 (field, step index) positions.
C35_AtMostNEdits ==
  mpc \in {"loop", "returned"} =>
    /\ mn \in 0..(MAX_TRANSFORMS - 1)
    /\ mk <= mn
    /\ Cardinality(Differences(mlast, mnew)) <= 1
    /\ \A pos \in Differences(mlast, mnew) :
         mnew[pos[1]][pos[2]] \in DomainOf(pos[1])
    /\ Cardinality(Differences(mbase, mnew)) <= mk
    /\ mpc = "returned" =>
         /\ mnew = ModifyInfo(mbase, mstream, 0).info
         /\ Cardinality(Differences(mbase, mnew)) <= MAX_TRANSFORMS - 1

\* modifyInfo has returned after 35 edits, or after edits to three of the
\* arrays of which two chose the same entry.
C35_Witness ==
  /\ mpc = "returned"
  /\ \/ mn = MAX_TRANSFORMS - 1 /\ mnew # mbase
     \/ /\ Cardinality({pos[1] : pos \in Differences(mbase, mnew)}) >= 3
        /\ Cardinality(Differences(mbase, mnew)) < mn

\* C37: optimize is idempotent: called again on the formula it has
\* normalized, it returns the flags of the first call and changes no field
\* of the formula.
C37_OptimizeIdempotent ==
  kpc = "again" =>
    /\ other.info0 = formula
    /\ other.info = formula
    /\ other.liveness = liveness

\* The first call changed the control of a free step, and the second call
\* has returned flags of both values.
C37_Witness ==
  /\ kpc = "again"
  /\ \E i \in FirstFree..(MAX_TRANSFORMS - 1) :
       formula.control[i] # formula0.control[i]
  /\ \E i \in FirstFree..(MAX_TRANSFORMS - 1) : ~other.liveness.usedTransFlag[i]
  /\ \E i \in FirstFree..(MAX_TRANSFORMS - 1) : other.liveness.usedTransFlag[i]

(***************************************************************************)
(* The WebGL worker and the frame callbacks it requests,                   *)
(* src/src/workerWebGL.ts lines 133-143 and 187-358.  The browser's list of *)
(* requested callbacks is fscheduled: requestFrame adds a fresh handle,    *)
(* cancelFrame removes one, and running a callback removes its handle.  A  *)
(* message handler and a frame callback, with the promise reactions they   *)
(* queue (renderFrame awaits a function that never waits), each run to     *)
(* completion before the worker takes anything else.                       *)
(***************************************************************************)
MaxMessages == 4
MaxHandles == 3

FreshContext ==
  [created |-> FALSE, pendingFrame |-> 0, type |-> "interactive",
   keepAlive |-> FALSE, formula |-> FALSE, requestId |-> 0]

\* The render-like messages: init (with or without a formula; its request
\* id is 0, line 234), render and update.
RenderLikeMessages ==
  [type : {"init"}, requestId : {0}, info : BOOLEAN, keepAlive : BOOLEAN,
   isExport : {FALSE}]
    \cup [type : {"render"}, requestId : {1, 2}, info : {TRUE},
          keepAlive : BOOLEAN, isExport : BOOLEAN]
    \cup [type : {"update"}, requestId : {1, 2}, info : {TRUE},
          keepAlive : BOOLEAN, isExport : {FALSE}]

\* What a handler leaves: the context, the callbacks scheduled, the next
\* handle, the frames it drew and the callbacks that were scheduled when it
\* drew or requested a frame.
Outcome(context, scheduled, nextHandle, drawn, stale) ==
  [context |-> context, scheduled |-> scheduled, nextHandle |-> nextHandle,
   drawn |-> drawn, stale |-> stale]

\* handleRenderMessage without lines 257-260: the pending frame stays
\* scheduled.
HandleFramesNoCancel(context, scheduled, nextHandle, message, available) ==
  IF ~context.created /\ ~available
  THEN Outcome(context, scheduled, nextHandle, 0, {})
  ELSE LET uploaded == [context EXCEPT !.created = TRUE,
                                       !.formula = @ \/ message.info]
       IN IF ~uploaded.formula
          THEN Outcome(uploaded, scheduled, nextHandle, 0, {})
          ELSE LET type == IF message.isExport THEN "export"
                           ELSE IF message.keepAlive THEN "animation"
                           ELSE "interactive"
                   mode == [uploaded EXCEPT !.type = type,
                                            !.keepAlive = message.keepAlive,
                                            !.requestId = message.requestId]
               IN IF type = "animation"
                  THEN Outcome([mode EXCEPT !.pendingFrame = nextHandle],
                               scheduled \cup {nextHandle}, nextHandle + 1,
                               0, scheduled)
                  ELSE Outcome(IF type = "export"
                               THEN [mode EXCEPT !.type = "interactive",
                                                 !.keepAlive = FALSE]
                               ELSE mode,
                               scheduled, nextHandle, 1, scheduled)

\* handleInitMessage (231-250) and handleRenderMessage (252-332), with
\* ensureSingletonContext (147-185): the pending frame is cancelled, the
\* formula uploaded ('No formula provided' is thrown if there is none), the
\* render mode set, and then either a frame is requested (animation) or
\* renderFrame draws at once.  available is false when getContext fails.
HandleFrames(context, scheduled, nextHandle, message, available) ==
  IF ~context.created /\ ~available
  THEN Outcome(context, scheduled, nextHandle, 0, {})
  ELSE LET cancelled == scheduled \ {context.pendingFrame}
           uploaded == [context EXCEPT !.created = TRUE,
                                       !.pendingFrame = 0,
                                       !.formula = @ \/ message.info]
       IN IF ~uploaded.formula
          THEN Outcome(uploaded, cancelled, nextHandle, 0, {})
          ELSE LET type == IF message.isExport THEN "export"
                           ELSE IF message.keepAlive THEN "animation"
                           ELSE "interactive"
                   mode == [uploaded EXCEPT !.type = type,
                                            !.keepAlive = message.keepAlive,
                                            !.requestId = message.requestId]
               IN IF type = "animation"
                  THEN Outcome([mode EXCEPT !.pendingFrame = nextHandle],
                               cancelled \cup {nextHandle}, nextHandle + 1,
                               0, cancelled)
                  ELSE Outcome(IF type = "export"
                               THEN [mode EXCEPT !.type = "interactive",
                                                 !.keepAlive = FALSE]
                               ELSE mode,
                               cancelled, nextHandle, 1, cancelled)

FInit ==
  /\ fcontext = FreshContext
  /\ fscheduled = {} /\ fnextHandle = 1 /\ fmessages = 0 /\ fcleaned = FALSE
  /\ fafterCleanup = 0 /\ fstale = {}
  /\ KIdle /\ GIdle /\ AIdle /\ QIdle /\ CIdle /\ HIdle /\ WIdle
  /\ PIdle /\ VIdle /\ SIdle /\ EIdle /\ NIdle /\ MIdle /\ TIdle /\ LIdle

\* The listener handles a message of the given type.
FHandle(type) ==
  /\ fmessages < MaxMessages
  /\ \E message \in {data \in RenderLikeMessages : data.type = type},
        available \in BOOLEAN :
       LET out == HandleFrames(fcontext, fscheduled, fnextHandle, message,
                               available)
       IN /\ out.nextHandle <= MaxHandles + 1
          /\ fcontext' = out.context
          /\ fscheduled' = out.scheduled
          /\ fnextHandle' = out.nextHandle
          /\ fstale' = out.stale
  /\ fmessages' = fmessages + 1
  /\ fcleaned' = FALSE
  /\ fafterCleanup' = 0
  /\ UNCHANGED notF

FInitMessage == FHandle("init")
FRenderMessage == FHandle("render")
FUpdateMessage == FHandle("update")

\* lines 204-209: 'cleanup'
FCleanupMessage ==
  /\ fmessages < MaxMessages
  /\ IF fcontext.created /\ fcontext.pendingFrame # 0
     THEN /\ fscheduled' = fscheduled \ {fcontext.pendingFrame}
          /\ fcontext' = [fcontext EXCEPT !.pendingFrame = 0]
     ELSE UNCHANGED <<fscheduled, fcontext>>
  /\ fmessages' = fmessages + 1
  /\ fcleaned' = TRUE
  /\ fafterCleanup' = 0
  /\ fstale' = {}
  /\ UNCHANGED <<fnextHandle, notF>>

\* lines 210-212: 'ping' is answered with 'pong'
FPingMessage ==
  /\ fmessages < MaxMessages
  /\ fmessages' = fmessages + 1
  /\ UNCHANGED <<fcontext, fscheduled, fnextHandle, fcleaned, fafterCleanup,
                 fstale, notF>>

\* lines 297-323 and 334-358: the browser runs a scheduled callback.  step
\* draws the frame and posts 'rendered'; the reaction of line 299 then
\* requests the next frame if the mode is still a kept-alive animation, and
\* the one of line 309 clears pendingFrame if drawing threw.
FFrame ==
  /\ \E handle \in fscheduled, threw \in BOOLEAN :
       LET again == ~threw /\ fcontext.type = "animation" /\ fcontext.keepAlive
       IN /\ again => fnextHandle <= MaxHandles
          /\ fscheduled' = (fscheduled \ {handle})
                             \cup (IF again THEN {fnextHandle} ELSE {})
          /\ fcontext' = [fcontext EXCEPT
                            !.pendingFrame = IF again THEN fnextHandle ELSE 0]
          /\ fnextHandle' = IF again THEN fnextHandle + 1 ELSE fnextHandle
          /\ fafterCleanup' = IF fcleaned /\ ~threw THEN fafterCleanup + 1
                              ELSE fafterCleanup
  /\ UNCHANGED <<fmessages, fcleaned, fstale, notF>>

FNext ==
  \/ FInitMessage \/ FRenderMessage \/ FUpdateMessage
  \/ FCleanupMessage \/ FPingMessage \/ FFrame

SpecFrames == FInit /\ [][FNext]_vars

\* C36: the WebGL worker never has more than one frame callback scheduled;
\* init, render and update cancel the pending frame before they draw or
\* request a frame; and after a cleanup message no frame is drawn and no
\* callback is scheduled until the next init, render or update message.
C36_OneFrameScheduled ==
  /\ Cardinality(fscheduled) <= 1
  /\ fscheduled = IF fcontext.pendingFrame = 0 THEN {}
                  ELSE {fcontext.pendingFrame}
  /\ fstale = {}
  /\ fcleaned => fscheduled = {} /\ fafterCleanup = 0

\* An animation whose frame ran and was requested again has been cleaned
\* up, and a ping was handled after the cleanup.
C36_Witness ==
  /\ fcleaned
  /\ fnextHandle >= 3
  /\ fcontext.type = "animation" /\ fcontext.keepAlive
  /\ fcontext.pendingFrame = 0
  /\ fmessages >= 3

(***************************************************************************)
(* The responsiveness check of QbistRenderer, src/unnamed/part_012 lines   *)
(* 289-350, 399-448 and 609-624.  A promise is named by the id of the ping *)
(* it was created for.  The timer of a ping is armed exactly while the     *)
(* ping is in pendingPings: resolve and reject both clear it.              *)
(***************************************************************************)
MaxPings == 3

NInit ==
  /\ workerResponsive = FALSE /\ workerResponsivePromise = 0
  /\ pendingPings = {} /\ nextPingId = 1 /\ npromises = <<>>
  /\ ninbox = <<>> /\ noutbox = <<>>
  /\ nlast = [outstanding |-> {}, returned |-> 0, fresh |-> FALSE,
              outcome |-> ""]
  /\ KIdle /\ GIdle /\ AIdle /\ QIdle /\ CIdle /\ HIdle /\ WIdle
  /\ PIdle /\ VIdle /\ SIdle /\ EIdle /\ FIdle /\ MIdle /\ TIdle /\ LIdle

\* pending.reject of lines 427-433 for every ping in ids
Rejected(promises, ids) ==
  [id \in DOMAIN promises |->
     IF id \in ids THEN [promises[id] EXCEPT !.outcome = "rejected"]
     ELSE promises[id]]

\* ensureWorkerResponsive(), lines 399-448; posted is false when
\* worker.postMessage throws.  The executor of line 410 runs before the
\* promise is assigned to workerResponsivePromise, so the assignment comes
\* after the pending.reject of line 441.
NEnsure ==
  \E posted \in BOOLEAN :
    IF workerResponsive
    THEN /\ nlast' = [outstanding |-> pendingPings, returned |-> 0,
                      fresh |-> FALSE, outcome |-> "resolved"]
         /\ posted
         /\ UNCHANGED <<workerResponsive, workerResponsivePromise,
                        pendingPings, nextPingId, npromises, ninbox,
                        noutbox, notN>>
    ELSE IF workerResponsivePromise # 0
    THEN /\ nlast' = [outstanding |-> pendingPings,
                      returned |-> workerResponsivePromise,
                      fresh |-> FALSE,
                      outcome |-> npromises[workerResponsivePromise].outcome]
         /\ posted
         /\ UNCHANGED <<workerResponsive, workerResponsivePromise,
                        pendingPings, nextPingId, npromises, ninbox,
                        noutbox, notN>>
    ELSE /\ nextPingId <= MaxPings
         /\ nextPingId' = nextPingId + 1
         /\ workerResponsivePromise' = nextPingId
         /\ workerResponsive' = FALSE
         /\ pendingPings' = IF posted THEN pendingPings \cup {nextPingId}
                            ELSE pendingPings
         /\ npromises' = Append(npromises,
                                [outcome |-> IF posted THEN "pending"
                                             ELSE "rejected",
                                 posted |-> posted])
         /\ ninbox' = IF posted THEN Append(ninbox, nextPingId) ELSE ninbox
         /\ nlast' = [outstanding |-> pendingPings, returned |-> nextPingId,
                      fresh |-> TRUE,
                      outcome |-> IF posted THEN "pending" ELSE "rejected"]
         /\ UNCHANGED <<noutbox, notN>>

\* lines 412-417: the timer of a ping runs
NTimeout ==
  /\ \E pingId \in pendingPings :
       /\ pendingPings' = pendingPings \ {pingId}
       /\ npromises' = Rejected(npromises, {pingId})
  /\ workerResponsive' = FALSE
  /\ workerResponsivePromise' = 0
  /\ UNCHANGED <<nextPingId, ninbox, noutbox, nlast, notN>>

\* src/src/workerWebGL.ts:210-212: the worker answers its oldest ping
NWorker ==
  /\ ninbox # <<>>
  /\ noutbox' = Append(noutbox, Head(ninbox))
  /\ ninbox' = Tail(ninbox)
  /\ UNCHANGED <<workerResponsive, workerResponsivePromise, pendingPings,
                 nextPingId, npromises, nlast, notN>>

\* The listener resolves the outstanding ping on any pong.
NPongAnyId ==
  /\ noutbox # <<>>
  /\ IF pendingPings # {}
     THEN /\ pendingPings' = {}
          /\ workerResponsive' = TRUE
          /\ workerResponsivePromise' = 0
          /\ npromises' = [id \in DOMAIN npromises |->
                             IF id \in pendingPings
                             THEN [npromises[id] EXCEPT !.outcome = "resolved"]
                             ELSE npromises[id]]
     ELSE UNCHANGED <<pendingPings, workerResponsive,
                      workerResponsivePromise, npromises>>
  /\ noutbox' = Tail(noutbox)
  /\ UNCHANGED <<nextPingId, ninbox, nlast, notN>>

\* lines 324-333 and 420-426: the message listener gets a 'pong'
NPong ==
  /\ noutbox # <<>>
  /\ IF Head(noutbox) \in pendingPings
     THEN /\ pendingPings' = pendingPings \ {Head(noutbox)}
          /\ workerResponsive' = TRUE
          /\ workerResponsivePromise' = 0
          /\ npromises' = [npromises EXCEPT
                             ![Head(noutbox)].outcome = "resolved"]
     ELSE UNCHANGED <<pendingPings, workerResponsive,
                      workerResponsivePromise, npromises>>
  /\ noutbox' = Tail(noutbox)
  /\ UNCHANGED <<nextPingId, ninbox, nlast, notN>>

\* lines 339-344, 309-316 and 609-624: the error listener rejects the
\* pending pings; handleWorkerFailure of each renderer then finds none
\* pending and assigns the two variables once more.
NWorkerError ==
  /\ npromises' = Rejected(npromises, pendingPings)
  /\ pendingPings' = {}
  /\ workerResponsivePromise' = 0
  /\ workerResponsive' = FALSE
  /\ UNCHANGED <<nextPingId, ninbox, noutbox, nlast, notN>>

NNext == NEnsure \/ NTimeout \/ NWorker \/ NPong \/ NWorkerError

SpecPing == NInit /\ [][NNext]_vars

\* A pong is dispatched in this step.
PongDispatched == noutbox # <<>> /\ noutbox' = Tail(noutbox)

\* C38: at most one ping is outstanding and the callers of
\* ensureWorkerResponsive made meanwhile get its promise; workerResponsive
\* becomes true only when a pong with the id of the outstanding ping
\* arrives; a pong whose ping is no longer pending changes nothing.
C38_OnePingShared ==
  /\ [](/\ Cardinality(pendingPings) <= 1
        /\ \A pingId \in pendingPings :
             /\ workerResponsivePromise = pingId
             /\ npromises[pingId].outcome = "pending"
        /\ nlast.outstanding # {} => nlast.returned \in nlast.outstanding)
  /\ [][/\ ~workerResponsive /\ workerResponsive' =>
             PongDispatched /\ Head(noutbox) \in pendingPings
        /\ PongDispatched /\ Head(noutbox) \notin pendingPings =>
             UNCHANGED <<workerResponsive, workerResponsivePromise,
                         pendingPings, npromises>>]_vars

\* The first ping timed out, its pong came late and was dropped, and the
\* second ping was answered while a second caller shared its promise.
C38_Witness ==
  /\ Len(npromises) >= 2
  /\ npromises[1] = [outcome |-> "rejected", posted |-> TRUE]
  /\ npromises[2] = [outcome |-> "resolved", posted |-> TRUE]
  /\ workerResponsive
  /\ nlast.outstanding = {2} /\ nlast.returned = 2

\* C39: a failed check does not stick: once ensureWorkerResponsive has
\* rejected, for whatever reason, no ping is outstanding,
\* workerResponsivePromise is null, and the next call makes a fresh ping
\* instead of returning the promise that was rejected.
C39_FailureDoesNotStick ==
  /\ \A pingId \in DOMAIN npromises :
       npromises[pingId].outcome = "rejected" =>
         /\ pingId \notin pendingPings
         /\ workerResponsivePromise # pingId
  /\ ~nlast.fresh => nlast.outcome # "rejected"

====
